---- MODULE Spec2Model ----
(***************************************************************************)
(* The reactive core of viu.js: effects and dependency sets (track /       *)
(* trigger), the mutable proxy handlers of one reactive plain object,      *)
(* refs, computed refs, watchers (doWatch) and the scheduler.              *)
(*                                                                         *)
(* JavaScript runs every handler to completion, so each action below is a  *)
(* whole top-level call (a write, a read, a registration, a stop, or the   *)
(* microtask that runs flushJobs).  The calls a handler makes are          *)
(* operators over a record s that holds the program's state while the      *)
(* handler runs; the action copies the final record into the variables.    *)
(* log holds what the last top-level call executed, in order; act names    *)
(* that call; stale[c] records that something the getter of computed c     *)
(* reads has changed since the getter last ran.  microtasks is the         *)
(* platform's microtask queue, reactions the nextTick callbacks chained to *)
(* the pending flush promise, bothFlags records that isFlushing and        *)
(* isFlushPending were true together at some point of a call.  items is    *)
(* the raw array of the one reactive array, itemKeys the keys of its map   *)
(* of dependency sets in the order they were created, trackStack the       *)
(* values of shouldTrack that pauseTracking saved.  proxies are the        *)
(* wrappers made of the objects of RawObjects, the four maps the caches of *)
(* createReactiveObject, returned what the last call of a wrapping         *)
(* function or of toRaw returned.                                          *)
(* A thrown error is the field err of s: it is set where the error is      *)
(* thrown, every operator passes a state with err set on unchanged (the    *)
(* statements after a throwing call are not executed), a finally block is  *)
(* applied all the same and a catch clears it.  An error that reaches the  *)
(* top-level caller is logged as "uncaught".                               *)
(***************************************************************************)
EXTENDS Integers, Sequences, FiniteSets, TLC

VARIABLES raw, refVal, eff, dep, comp, activeEffect, shouldTrack,
          queue, pendingPostFlushCbs, isFlushing, isFlushPending, flushIndex,
          currentPostFlushParentJob, scope, activeEffectScope,
          currentFlushPromise, microtasks, reactions, bothFlags,
          items, itemKeys, trackStack,
          proxies, reactiveMap, shallowReactiveMap, readonlyMap, shallowReadonlyMap,
          returned,
          log, act, stale

vars == <<raw, refVal, eff, dep, comp, activeEffect, shouldTrack,
          queue, pendingPostFlushCbs, isFlushing, isFlushPending, flushIndex,
          currentPostFlushParentJob, scope, activeEffectScope,
          currentFlushPromise, microtasks, reactions, bothFlags,
          items, itemKeys, trackStack,
          proxies, reactiveMap, shallowReactiveMap, readonlyMap, shallowReadonlyMap,
          returned,
          log, act, stale>>

----------------------------------------------------------------------------
(* Bounds *)

\* the number of effects (plain, computed, watcher) a run creates
MaxEffects == 2
\* the number of watchers among them
MaxWatchers == 1
\* the number of effect scopes a run creates
MaxScopes == 3
\* the number of cleanups registered in one scope
MaxCleanups == 2
\* a scope is stopped only while each cleanup has been called less often
MaxCalls == 2
\* the number of watchers in the runs about the order of the queue
MaxQueuedWatchers == 2
\* the ids of the jobs that carry one are 1..MaxId
MaxId == 3
\* the number of nextTick callbacks that wait to be called
MaxTicks == 2
\* the indices of the reactive array are 0..MaxIndex
MaxIndex == 2
\* the number of proxies made, after which no wrapping function is called
MaxProxies == 4

----------------------------------------------------------------------------
(* Values.  A JavaScript value is a token [t, n]; two tokens are equal iff *)
(* the values are indistinguishable by Object.is.                          *)

Num(n) == [t |-> "num", n |-> n]
NaN == [t |-> "nan", n |-> 0]
NegZero == [t |-> "negzero", n |-> 0]
Undefined == [t |-> "undefined", n |-> 0]
\* the reactive proxy of the one reactive object (always the same identity)
ObjProxy == [t |-> "object", n |-> 0]
INITIAL_WATCHER_VALUE == [t |-> "initial", n |-> 0]
\* the ref r1 or r2 itself, as a value stored in the reactive object
RefValue(n) == [t |-> "ref", n |-> n]
isRef(v) == v.t = "ref"
RefName(v) == IF v.n = 1 THEN "r1" ELSE "r2"
\* in a user function: "the value read last"
Acc == [t |-> "acc", n |-> 0]

\* a value handed to a callback: a scalar (xs[1]) or an array of scalars
Scalar(v) == [list |-> FALSE, xs |-> <<v>>]
List(vs) == [list |-> TRUE, xs |-> vs]

IsNumber(v) == v.t \in {"num", "nan", "negzero"}
IsZero(v) == v = Num(0) \/ v = NegZero

\* a === b
StrictEquals(a, b) ==
    IF IsNumber(a) /\ IsNumber(b)
    THEN a.t # "nan" /\ b.t # "nan" /\ (a = b \/ (IsZero(a) /\ IsZero(b)))
    ELSE a = b

\* Object.is(a, b): SameValue
ObjectIs(a, b) ==
    IF IsNumber(a) /\ IsNumber(b)
    THEN \/ a.t = "nan" /\ b.t = "nan"
         \/ a.t = "negzero" /\ b.t = "negzero"
         \/ a.t = "num" /\ b.t = "num" /\ a.n = b.n
    ELSE a = b

hasChangedStrict(value, oldValue) == ~StrictEquals(value, oldValue)

hasChanged(value, oldValue) == ~ObjectIs(value, oldValue)

\* v * 2
Double(v) == IF v.t = "num" THEN Num(2 * v.n) ELSE IF IsNumber(v) THEN v ELSE NaN

----------------------------------------------------------------------------
(* The objects of a run *)

Keys == {"a", "b"}
ITERATE_KEY == ""
\* traverse() reads this key through the proxy, which tracks it
SKIP_KEY == "__v_skip"
Refs == {"r1", "r2"}
Comps == {"c1"}

\* the keys of the reactive array that are read: its indices and length
LENGTH == <<"array", "length">>
Index(i) == <<"index", i>>
ArrayKeys == { Index(i) : i \in 0..MaxIndex } \cup {LENGTH}

DepIds == ({"key"} \X (Keys \cup {ITERATE_KEY, SKIP_KEY})) \cup ({"ref"} \X Refs)
              \cup ({"computed"} \X Comps) \cup ArrayKeys

Has(seq, x) == \E i \in 1..Len(seq) : seq[i] = x
Remove(seq, x) == SelectSeq(seq, LAMBDA y : y # x)
IndexOf(seq, x) == IF Has(seq, x) THEN CHOOSE i \in 1..Len(seq) : seq[i] = x /\ \A j \in 1..(i-1) : seq[j] # x ELSE 0

RECURSIVE Dedup(_)
\* new Set(seq): insertion order, first occurrence kept
Dedup(seq) ==
    IF seq = <<>> THEN <<>>
    ELSE LET front == Dedup(SubSeq(seq, 1, Len(seq) - 1))
             last == seq[Len(seq)]
         IN IF Has(front, last) THEN front ELSE Append(front, last)

RECURSIVE Flatten(_)
Flatten(seqs) == IF seqs = <<>> THEN <<>> ELSE Head(seqs) \o Flatten(Tail(seqs))

Count(seq, P(_)) == Len(SelectSeq(seq, P))

----------------------------------------------------------------------------
(* User functions: straight-line programs over the objects of the run.     *)

I(op, x, v) == [op |-> op, x |-> x, v |-> v]

\* effect(() => { state.a })
Body(name) ==
    CASE name = "readA" -> << I("RK", "a", Undefined) >>
      [] name = "readR1" -> << I("RR", "r1", Undefined) >>
      \* () => { count.value; doubled.value }
      [] name = "readR1C1" -> << I("RR", "r1", Undefined), I("RC", "c1", Undefined) >>
      \* () => { state.a; count.value = 1 }
      [] name = "readAsetR1" -> << I("RK", "a", Undefined), I("WR", "r1", Num(1)) >>
      \* () => { state.a = count.value }
      [] name = "readR1setA" -> << I("RR", "r1", Undefined), I("WK", "a", Acc) >>
      \* () => { if (runner) stop(runner); state.a }
      [] name = "stopReadA" -> << I("STOP", "", Undefined), I("RK", "a", Undefined) >>
      \* () => { if (runner) stop(runner); state.a; state.a = 1 }
      [] name = "stopReadAsetA" -> << I("STOP", "", Undefined), I("RK", "a", Undefined),
                                      I("WK", "a", Num(1)) >>
      \* () => { if (state.a !== 1) count.value }
      [] name = "readAthenR1" -> << I("RK", "a", Undefined), I("RETIF", "", Num(1)),
                                    I("RR", "r1", Undefined) >>
      \* () => { Object.keys(state) }
      [] name = "keys" -> << I("KEYS", "", Undefined) >>
      \* () => { 'b' in state }
      [] name = "hasB" -> << I("IN", "b", Undefined) >>
      \* () => { state.b }
      [] name = "readB" -> << I("RK", "b", Undefined) >>
      \* () => { list[0] }, () => { list[1] }, () => { list[2] }, () => { list.length }
      [] name = "readI0" -> << I("RI", "", Num(0)) >>
      [] name = "readI1" -> << I("RI", "", Num(1)) >>
      [] name = "readI2" -> << I("RI", "", Num(2)) >>
      [] name = "readLen" -> << I("RLEN", "", Undefined) >>
      \* () => { list.push(1) }
      [] name = "push" -> << I("PUSH", "", Num(1)) >>
      \* () => { list.pop() }
      [] name = "pop" -> << I("POP", "", Undefined) >>
      \* () => { list.length; list.pop() }
      [] name = "readLenPop" -> << I("RLEN", "", Undefined), I("POP", "", Undefined) >>
      \* () => { list.push(1); state.a }
      [] name = "pushReadA" -> << I("PUSH", "", Num(1)), I("RK", "a", Undefined) >>
      \* () => { try { list.push(1) } catch (e) {} state.a }
      [] name = "tryPushReadA" -> << I("PUSH", "try", Num(1)), I("RK", "a", Undefined) >>
      \* () => { if (list.length === 1) throw new Error() }
      [] name = "throwIfLen" -> << I("RLEN", "", Undefined), I("THROWIF", "", Num(1)) >>
      \* () => { r2.value = 1 }
      [] name = "setR2" -> << I("WR", "r2", Num(1)) >>
      \* computed(() => count.value * 2)
      [] name = "doubleR1" -> << I("RR", "r1", Undefined), I("DBL", "", Undefined) >>
      \* a watcher callback that does nothing but be called
      [] name = "noop" -> << >>
      \* a watcher callback that writes: () => { state.a = 1 }
      [] name = "setA" -> << I("WK", "a", Num(1)) >>
      \* a watcher callback that registers a cleanup in every call:
      \* (value, old, onCleanup) => { onCleanup(() => {}) }
      [] name = "register" -> << I("ONCLEANUP", "", Undefined) >>
      \* one that registers in its first call only:
      \* (value, old, onCleanup) => { if (first) { first = false; onCleanup(() => {}) } }
      [] name = "registerOnce" -> << I("ONCLEANUP", "once", Undefined) >>
      \* watchEffect(onCleanup => { count.value; onCleanup(() => {}) }), and the
      \* same registering in the first run only
      [] name = "readR1register" -> << I("RR", "r1", Undefined),
                                       I("ONCLEANUP", "", Undefined) >>
      [] name = "readR1registerOnce" -> << I("RR", "r1", Undefined),
                                           I("ONCLEANUP", "once", Undefined) >>
      \* a watcher callback that stops its watcher
      [] name = "stop" -> << I("STOP", "", Undefined) >>
      \* scope.run(() => { effect(() => state.a); onScopeDispose(() => {}) })
      [] name = "scopeEffect" -> << I("EFF", "readA", Undefined), I("DISP", "noop", Undefined) >>
      \* scope.run(() => { effectScope().run(<scopeEffect>); effect(() => state.a) })
      [] name = "scopeChild" -> << I("SCOPE", "scopeEffect", Num(0)),
                                   I("EFF", "readA", Undefined) >>
      \* scope.run(() => { effectScope().run(<scopeEffect>); onScopeDispose(() => {}) })
      [] name = "scopeChildDispose" -> << I("SCOPE", "scopeEffect", Num(0)),
                                          I("DISP", "noop", Undefined) >>
      \* the same with effectScope(true)
      [] name = "scopeDetached" -> << I("SCOPE", "scopeEffect", Num(1)),
                                      I("EFF", "readA", Undefined) >>
      \* scope.run(() => { effectScope().run(<scopeStopper>) })
      [] name = "scopeChildStopper" -> << I("SCOPE", "scopeStopper", Num(0)) >>
      \* scope.run(() => { onScopeDispose(() => { if (!done) { done = true; scope.stop() } });
      \*                   onScopeDispose(() => {}) })
      [] name = "scopeStopper" -> << I("DISP", "stopOwn", Undefined),
                                     I("DISP", "noop", Undefined) >>
      \* scope.run(() => { effectScope().run(() => { throw e }); effect(() => state.a) })
      [] name = "scopeChildThrow" -> << I("SCOPE", "throw", Num(0)),
                                        I("EFF", "readA", Undefined) >>
      \* scope.run(() => { effectScope().run(() => { effectScope().run(() => {});
      \*                                           effect(() => state.a) });
      \*                   effect(() => state.a) })
      [] name = "scopeNest" -> << I("SCOPE", "scopeNestInner", Num(0)),
                                  I("EFF", "readA", Undefined) >>
      [] name = "scopeNestInner" -> << I("SCOPE", "noop", Num(0)),
                                       I("EFF", "readA", Undefined) >>
      \* effect(() => { if (state.a === 1) throw e })
      [] name = "throwIfA" -> << I("RK", "a", Undefined), I("THROWIF", "", Num(1)) >>
      \* computed(() => { if (count.value === 1) throw e; return count.value })
      [] name = "throwIfR1" -> << I("RR", "r1", Undefined), I("THROWIF", "", Num(1)) >>
      \* () => { throw e }
      [] name = "throw" -> << I("THROWIF", "", Undefined) >>
      [] OTHER -> << >>

RECURSIVE CreatesFrom(_, _, _)
\* how many effects (op "EFF") or scopes (op "SCOPE") a user function creates
\* from instruction i on, the functions it runs in new scopes included
CreatesFrom(name, op, i) ==
    IF i > Len(Body(name)) THEN 0
    ELSE (IF Body(name)[i].op = op THEN 1 ELSE 0)
         + (IF Body(name)[i].op = "SCOPE" THEN CreatesFrom(Body(name)[i].x, op, 1) ELSE 0)
         + CreatesFrom(name, op, i + 1)

\* the keys and refs a user function reads
Reads(name) == { Body(name)[i].x : i \in { j \in 1..Len(Body(name)) :
                                            Body(name)[j].op \in {"RK", "RR"} } }

\* the computed a user function reads, if any
ReadsComputed(name) == { ins.x : ins \in { Body(name)[i] : i \in 1..Len(Body(name)) } \cap
                            { I("RC", c, Undefined) : c \in Comps } }

----------------------------------------------------------------------------
(* Effects *)

\* new ReactiveEffect(fn, scheduler): the fields of the effect and, for a
\* computed or a watcher, of the object that owns it
NewEffect(kind, fn, sched) ==
    [ kind |-> kind, fn |-> fn, sched |-> sched, active |-> TRUE, deps |-> <<>>,
      parent |-> 0, allowRecurse |-> FALSE, onStop |-> FALSE, pending |-> FALSE,
      bound |-> FALSE,
      name |-> "", dirty |-> FALSE, value |-> Undefined, read |-> {},
      src |-> "", cb |-> "", deep |-> FALSE, multi |-> FALSE, force |-> FALSE,
      oldValue |-> Scalar(INITIAL_WATCHER_VALUE) ]

\* new EffectScope(detached), parent the ambient scope
NewScope(detached, parent) ==
    [ detached |-> detached, active |-> TRUE, effects |-> <<>>, cleanups |-> <<>>,
      ran |-> <<>>, parent |-> parent, scopes |-> <<>>, index |-> 0 ]

\* an entry of the log: what was executed (ev), of which effect (e), on which
\* key, ref or computed (x), with which values (a, b)
Ev(ev, e, x, a, b) == [ev |-> ev, e |-> e, x |-> x, a |-> a, b |-> b]
NoArg == Scalar(Undefined)
Logged(s, ev, e, a, b) == [s EXCEPT !.log = Append(@, Ev(ev, e, "", a, b))]
\* a write that changed key or ref x from value b to value a
LoggedWrite(s, x, a, b) ==
    [s EXCEPT !.log = Append(@, Ev("write", s.activeEffect, x, Scalar(a), Scalar(b))),
              !.stale = [c \in Comps |->
                            @[c] \/ (s.comp[c] # 0 /\ x \in Reads(s.eff[s.comp[c]].fn))]]
\* the getter of computed effect e runs
LoggedGetter(s, e) ==
    [s EXCEPT !.log = Append(@, Ev("run", e,
                                   IF s.stale[s.eff[e].name] THEN "changed" ELSE "unchanged",
                                   NoArg, NoArg)),
              !.stale[s.eff[e].name] = FALSE]

\* handleError
handleError(s, type) == Logged([s EXCEPT !.err = FALSE], "handleError", 0, NoArg, NoArg)

\* callWithErrorHandling(fn, type), s the state the call of fn ended in: an
\* error is caught and reported, and the result is then undefined
callWithErrorHandling(s, type) ==
    IF s.err THEN [handleError(s, type) EXCEPT !.ret = Scalar(Undefined)] ELSE s

\* recordEffectScope(effect), scope defaulting to the ambient scope
recordEffectScope(s, e) ==
    IF s.activeEffectScope # 0 /\ s.scope[s.activeEffectScope].active
    THEN [s EXCEPT !.scope[s.activeEffectScope].effects = Append(@, e)]
    ELSE s

\* new ReactiveEffect(...): the effect gets the next index
construct(s, new) == recordEffectScope([s EXCEPT !.eff = Append(@, new)], Len(s.eff) + 1)

\* effectScope(detached): the scope gets the next index; index counts from 0
effectScope(s, detached) ==
    LET p == s.activeEffectScope
        id == Len(s.scope) + 1
    IN IF ~detached /\ p # 0
       THEN [s EXCEPT !.scope = Append(@, [NewScope(detached, p) EXCEPT
                                              !.index = Len(s.scope[p].scopes)]),
                      !.scope[p].scopes = Append(@, id)]
       ELSE [s EXCEPT !.scope = Append(@, NewScope(detached, p))]

\* onScopeDispose(fn); ran counts the calls of fn
onScopeDispose(s, cleanup) ==
    IF s.activeEffectScope # 0
    THEN [s EXCEPT !.scope[s.activeEffectScope].cleanups = Append(@, cleanup),
                   !.scope[s.activeEffectScope].ran = Append(@, 0)]
    ELSE Logged(s, "warn", 0, NoArg, NoArg)

RECURSIVE OnStack(_, _, _)
\* the while loop of run(): is e the active effect or one of its parents?
OnStack(s, parent, e) ==
    IF parent = 0 THEN FALSE
    ELSE IF parent = e THEN TRUE
    ELSE OnStack(s, s.eff[parent].parent, e)

RECURSIVE cleanupLoop(_, _, _)
cleanupLoop(s, e, i) ==
    IF i > Len(s.eff[e].deps) THEN s
    ELSE cleanupLoop([s EXCEPT !.dep[s.eff[e].deps[i]] = Remove(@, e)], e, i + 1)

cleanupEffect(s, e) ==
    IF Len(s.eff[e].deps) > 0
    THEN [cleanupLoop(s, e, 1) EXCEPT !.eff[e].deps = <<>>]
    ELSE s

trackEffects(s, d) ==
    IF ~Has(s.dep[d], s.activeEffect)
    THEN [s EXCEPT !.dep[d] = Append(@, s.activeEffect),
                   !.eff[s.activeEffect].deps = Append(@, d)]
    ELSE s

\* the active effect reads d with tracking enabled: read is what the effect
\* has read since its run began
NoteRead(s, d) == [s EXCEPT !.eff[s.activeEffect].read = @ \cup {d}]

\* track, were a read recorded while tracking is paused
trackWhilePaused(s, d) ==
    IF s.activeEffect # 0 THEN trackEffects(NoteRead(s, d), d) ELSE s

track(s, d) ==
    IF s.shouldTrack /\ s.activeEffect # 0 THEN trackEffects(NoteRead(s, d), d) ELSE s

pauseTracking(s) ==
    [s EXCEPT !.trackStack = Append(@, s.shouldTrack), !.shouldTrack = FALSE]

resetTracking(s) ==
    IF Len(s.trackStack) = 0 THEN [s EXCEPT !.shouldTrack = TRUE]
    ELSE [s EXCEPT !.shouldTrack = s.trackStack[Len(s.trackStack)],
                   !.trackStack = SubSeq(@, 1, Len(@) - 1)]

trackRefValue(s, d) ==
    IF s.shouldTrack /\ s.activeEffect # 0 THEN trackEffects(NoteRead(s, d), d) ELSE s

----------------------------------------------------------------------------
(* Scheduler: enqueueing.  A queue entry is the watcher job of effect e    *)
(* (k = "job"), or the bound run of effect e (k = "run": the runner an     *)
(* effect's scheduler enqueues, the initial run of a post watchEffect).    *)
(* No entry of this model carries an id.                                   *)

\* currentPostFlushParentJob: null, or the array of callbacks being flushed
Null == [set |-> FALSE, cbs |-> <<>>]
Array(cbs) == [set |-> TRUE, cbs |-> cbs]

Job(e) == [k |-> "job", e |-> e]
\* a job that carries the numeric id n
IdJob(n) == [k |-> "id", e |-> n]
\* the id of a job without id
Infinity == 1000
getId(j) == IF j.k = "id" THEN j.e ELSE Infinity

\* arr.splice(i, 0, x), i counted from 0 and clamped to the length
Splice(seq, i, x) ==
    LET at == IF i > Len(seq) THEN Len(seq) ELSE i
    IN SubSeq(seq, 1, at) \o <<x>> \o SubSeq(seq, at + 1, Len(seq))

RECURSIVE SortById(_)
\* arr.sort((a, b) => getId(a) - getId(b)): stable, ascending
SortById(seq) ==
    IF Len(seq) <= 1 THEN seq
    ELSE LET front == SortById(SubSeq(seq, 1, Len(seq) - 1))
             last == seq[Len(seq)]
             at == Cardinality({ i \in 1..Len(front) : getId(front[i]) <= getId(last) })
         IN Splice(front, at, last)

RECURSIVE findInsertionLoop(_, _, _, _)
\* the binary search of findInsertionIndex, indices counted from 0
findInsertionLoop(q, id, start, end) ==
    IF start < end
    THEN LET middle == (start + end) \div 2
         IN IF getId(q[middle + 1]) < id
            THEN findInsertionLoop(q, id, middle + 1, end)
            ELSE findInsertionLoop(q, id, start, middle)
    ELSE start

findInsertionIndex(s, id) == findInsertionLoop(s.queue, id, s.flushIndex + 1, Len(s.queue))

\* queueJob: the job goes into the queue
Enqueue(s, j) ==
    IF j.k # "id" THEN [s EXCEPT !.queue = Append(@, j)]
    ELSE [s EXCEPT !.queue = Splice(@, findInsertionIndex(s, j.e), j)]
Runner(e) == [k |-> "run", e |-> e]

\* job.allowRecurse = !!cb
JobAllowRecurse(s, j) == j.k = "job" /\ s.eff[j.e].cb # ""
\* job.pre = true for a watcher job whose flush is neither sync nor post
JobPre(s, j) == j.k = "job" /\ s.eff[j.e].sched = "pre"

\* seq.includes(x, fromIndex), fromIndex counted from 0
Includes(seq, x, fromIndex) == \E i \in (fromIndex + 1)..Len(seq) : seq[i] = x

\* the microtask of resolvedPromise.then(flushJobs)
FlushTask == [k |-> "flushJobs", want |-> {}]
\* the microtask of a nextTick callback; want is what was enqueued and not yet
\* executed when nextTick was called
TickTask(want) == [k |-> "tick", want |-> want]

\* the two flags of the scheduler, observed after an assignment to one of them
Flags(s) == [s EXCEPT !.bothFlags = @ \/ (s.isFlushing /\ s.isFlushPending)]

\* queueFlush, were a flush scheduled whenever none is pending
queueFlushWhileFlushing(s) ==
    IF ~s.isFlushPending
    THEN Flags([s EXCEPT !.isFlushPending = TRUE,
                         !.currentFlushPromise = "pending",
                         !.microtasks = Append(@, FlushTask)])
    ELSE s

queueFlush(s) ==
    IF ~s.isFlushing /\ ~s.isFlushPending
    THEN Flags([s EXCEPT !.isFlushPending = TRUE,
                         !.currentFlushPromise = "pending",
                         !.microtasks = Append(@, FlushTask)])
    ELSE s

\* queueJob without the search for the job in the queue
queueJobNoDedupe(s, j) ==
    queueFlush([s EXCEPT !.queue = Append(@, j)])

\* the entries of the queue that have not been called: all of them, or those
\* behind queue[flushIndex] while the loop of flushJobs is at that entry
NotYetExecuted(s) ==
    IF s.inLoop THEN SubSeq(s.queue, s.flushIndex + 2, Len(s.queue)) ELSE s.queue

\* job j enters the queue: the log says if it was among those entries already
NoteDuplicate(s, j) ==
    IF Has(NotYetExecuted(s), j)
    THEN [s EXCEPT !.log = Append(@, Ev("duplicate", j.e, j.k, NoArg, NoArg))]
    ELSE s

queueJob(s, j) ==
    IF Len(s.queue) = 0
         \/ ~Includes(s.queue, j,
                      IF s.isFlushing /\ JobAllowRecurse(s, j)
                      THEN s.flushIndex + 1 ELSE s.flushIndex)
    THEN queueFlush(Enqueue(NoteDuplicate(s, j), j))
    ELSE s

\* currentPostFlushParentJob is an array, never an element of the pending
\* queue: indexOf gives -1 and the search starts at 0
queuePostFlushCb(s, j) ==
    queueFlush(IF Len(s.pendingPostFlushCbs) = 0 \/ ~Includes(s.pendingPostFlushCbs, j, 0)
               THEN [s EXCEPT !.pendingPostFlushCbs = Append(@, j)]
               ELSE s)

queuePostRenderEffect(s, j) == queuePostFlushCb(s, j)

----------------------------------------------------------------------------
(* Running and triggering effects *)

RECURSIVE run(_, _), fn(_, _), Exec(_, _, _, _, _), stop(_, _), deleteProperty(_, _),
          triggerArray(_, _, _, _), setIndex(_, _, _), setLength(_, _), native(_, _),
          readonlySetWriting(_, _, _),
          triggerEffects(_, _), triggerLoop(_, _, _, _), triggerEffect(_, _),
          scheduler(_, _), job(_, _), trigger(_, _, _), set(_, _, _),
          RefSet(_, _, _), ComputedGet(_, _), traverse(_, _, _), getter(_, _),
          triggerAll(_, _, _), ExecRead(_, _, _, _), jobCallback(_, _), Recompute(_, _),
          scopeRun(_, _, _), scopeStop(_, _, _), stopEffectsLoop(_, _, _, _),
          stopCleanupsLoop(_, _, _, _), stopScopesLoop(_, _, _, _), callCleanup(_, _, _)

\* doWatch: onCleanup(fn), called by the callback or the effect body of
\* watcher e; the function registered waits to be called
onCleanup(s, e) ==
    [s EXCEPT !.eff[e].onStop = TRUE, !.eff[e].pending = TRUE,
              !.log = Append(@, Ev("onCleanup", e, "", NoArg, NoArg))]

\* doWatch, were the function registered never called
cleanupNever(s, e) == s

\* doWatch: if (cleanup) cleanup(), and this.onStop() of the effect; the
\* call is marked when the function has been called since it was registered
cleanup(s, e) ==
    IF s.eff[e].onStop
    THEN [s EXCEPT !.eff[e].pending = FALSE,
                   !.log = Append(@, Ev("cleanup", e,
                                        IF s.eff[e].pending THEN "" ELSE "again",
                                        NoArg, NoArg))]
    ELSE s

\* ReactiveEffect.stop
stop(s, e) ==
    IF s.eff[e].active
    THEN [cleanup(cleanupEffect(Logged(s, "stop", e, NoArg, NoArg), e), e)
             EXCEPT !.eff[e].active = FALSE]
    ELSE s

\* ReactiveEffect.run, the finally block
runFinally(s, e, lastShouldTrack) ==
    [s EXCEPT !.activeEffect = s.eff[e].parent,
              !.shouldTrack = lastShouldTrack,
              !.eff[e].parent = 0]

\* ReactiveEffect.run
run(s, e) ==
    IF ~s.eff[e].active
    THEN fn(s, e)
    ELSE IF OnStack(s, s.activeEffect, e)
    THEN [s EXCEPT !.ret = Scalar(Undefined)]
    ELSE runFinally(fn([s EXCEPT !.eff[e].parent = s.activeEffect,
                                 !.eff[e].read = {},
                                 !.activeEffect = e,
                                 !.shouldTrack = TRUE], e),
                    e, s.shouldTrack)

\* the function of effect e is entered: calls is the stack of the functions
\* that are executing, and entering one that is on it is logged
fnEnter(s, e) ==
    [(IF Has(s.calls, e) THEN Logged(s, "reenter", e, NoArg, NoArg) ELSE s)
        EXCEPT !.calls = Append(@, e)]

\* the function of an effect returns or throws
fnReturn(s) == [s EXCEPT !.calls = SubSeq(@, 1, Len(@) - 1)]

\* this.fn(): the user's function for effect() and computed(), the getter
\* doWatch builds for a watcher
fn(s, e) ==
    fnReturn(
        IF s.eff[e].kind = "watch"
        THEN getter(fnEnter(s, e), e)
        ELSE Exec(IF s.eff[e].kind = "computed" THEN LoggedGetter(fnEnter(s, e), e)
                  ELSE Logged(fnEnter(s, e), "run", e, NoArg, NoArg),
                  e, Body(s.eff[e].fn), 1, Undefined))

\* proxy ownKeys trap
ownKeys(s) == track(s, <<"key", ITERATE_KEY>>)

\* proxy has trap: key in proxy
has(s, k) ==
    [track(s, <<"key", k>>) EXCEPT
        !.ret = Scalar(IF k \in DOMAIN s.raw THEN Num(1) ELSE Num(0))]

\* RefImpl get value
RefGet(s, r) == [trackRefValue(s, <<"ref", r>>) EXCEPT !.ret = Scalar(s.refVal[r])]

\* proxy get trap of the mutable deep handlers (createGetter), own data key
get(s, k) ==
    IF k \in DOMAIN s.raw /\ isRef(s.raw[k])
    THEN RefGet(track(s, <<"key", k>>), RefName(s.raw[k]))
    ELSE [track(s, <<"key", k>>) EXCEPT
             !.ret = Scalar(IF k \in DOMAIN s.raw THEN s.raw[k] ELSE Undefined)]

triggerRefValue(s, d) == triggerEffects(s, s.dep[d])

\* RefImpl set value
RefSet(s, r, newVal) ==
    IF hasChanged(newVal, s.refVal[r])
    THEN triggerRefValue(LoggedWrite([s EXCEPT !.refVal[r] = newVal], r, newVal, s.refVal[r]),
                         <<"ref", r>>)
    ELSE s

\* createSetter, were the value stored in place of a ref the key holds
setReplacingRef(s, k, value) ==
    LET hadKey == k \in DOMAIN s.raw
        oldValue == IF hadKey THEN s.raw[k] ELSE Undefined
        s1 == [s EXCEPT !.raw = [x \in DOMAIN s.raw \cup {k} |->
                                    IF x = k THEN value ELSE s.raw[x]]]
    IN IF ~hadKey THEN trigger(LoggedWrite(s1, k, value, oldValue), "add", k)
       ELSE IF hasChanged(value, oldValue)
       THEN trigger(LoggedWrite(s1, k, value, oldValue), "set", k)
       ELSE s1

\* proxy set trap of the mutable deep handlers (createSetter), plain object
set(s, k, value) ==
    LET hadKey == k \in DOMAIN s.raw
        oldValue == IF hadKey THEN s.raw[k] ELSE Undefined
        s1 == [s EXCEPT !.raw = [x \in DOMAIN s.raw \cup {k} |->
                                    IF x = k THEN value ELSE s.raw[x]]]
    IN IF isRef(oldValue) /\ ~isRef(value) THEN RefSet(s, RefName(oldValue), value)
       ELSE IF ~hadKey \/ hasChanged(value, oldValue)
       THEN trigger(LoggedWrite(s1, k, value, oldValue), IF ~hadKey THEN "add" ELSE "set", k)
       ELSE s1

\* track(target, type, key), target the array: depsMap.set(key, dep) the first time
trackArray(s, d) ==
    track(IF s.shouldTrack /\ s.activeEffect # 0 /\ ~Has(s.itemKeys, d)
          THEN [s EXCEPT !.itemKeys = Append(@, d)] ELSE s, d)

\* proxy get trap, the array and an integer key
getIndex(s, i) ==
    [trackArray(s, Index(i)) EXCEPT
        !.ret = Scalar(IF i < Len(s.items) THEN s.items[i + 1] ELSE Undefined)]

\* proxy get trap, the array and the key length
getLength(s) == [trackArray(s, LENGTH) EXCEPT !.ret = Scalar(Num(Len(s.items)))]

\* Reflect.set(array, i, value): an index not below the length extends the array
AssignIndex(a, i, value) ==
    [j \in 1..(IF i < Len(a) THEN Len(a) ELSE i + 1) |->
        IF j = i + 1 THEN value ELSE IF j <= Len(a) THEN a[j] ELSE Undefined]

\* Reflect.set(array, 'length', n)
AssignLength(a, n) == [j \in 1..n |-> IF j <= Len(a) THEN a[j] ELSE Undefined]

RECURSIVE LengthDepsAbove(_, _, _)
\* trigger: the sets collected for a new length, were the test key > newValue
LengthDepsAbove(s, n, i) ==
    IF i > Len(s.itemKeys) THEN <<>>
    ELSE (IF s.itemKeys[i] = LENGTH \/ s.itemKeys[i][2] > n
          THEN << s.dep[s.itemKeys[i]] >> ELSE <<>>) \o LengthDepsAbove(s, n, i + 1)

RECURSIVE LengthDeps(_, _, _)
\* trigger: depsMap.forEach((dep, key) => key === 'length' || key >= newValue), from
\* the i-th key of the map on
LengthDeps(s, n, i) ==
    IF i > Len(s.itemKeys) THEN <<>>
    ELSE (IF s.itemKeys[i] = LENGTH \/ s.itemKeys[i][2] >= n
          THEN << s.dep[s.itemKeys[i]] >> ELSE <<>>) \o LengthDeps(s, n, i + 1)

\* trigger, for the array: the deps collected for a new length, an added
\* index, a changed index
ArrayDeps(s, type, d, newValue) ==
    IF d = LENGTH THEN LengthDeps(s, newValue, 1)
    ELSE IF type = "add" THEN << s.dep[d], s.dep[LENGTH] >>
    ELSE << s.dep[d] >>

\* trigger, for the array; the trap calls it with type add or set only
triggerArray(s, type, d, newValue) ==
    IF type = "none" THEN s
    ELSE triggerEffects(Logged(s, type, 0, Scalar(Num(newValue)), NoArg),
                        Dedup(Flatten(ArrayDeps(s, type, d, newValue))))

\* an operation that reaches a trap of the array's proxy: list[i] = v,
\* delete list[i], list.length = i
Trap(op, i, v) == [op |-> op, i |-> i, v |-> v]

\* Reflect.set and Reflect.deleteProperty on the array
TrapItems(a, t) ==
    CASE t.op = "index" -> AssignIndex(a, t.i, t.v)
      [] t.op = "delete" -> AssignIndex(a, t.i, Undefined)
      [] OTHER -> AssignLength(a, t.i)

\* what the trap calls trigger with: the set trap add for a key it had not
\* (an index not below the length), set for a changed value, nothing for the
\* same value; the deleteProperty trap delete for a key it had
TrapType(a, t) ==
    CASE t.op = "index" ->
            IF ~(t.i < Len(a)) THEN "add"
            ELSE IF hasChanged(t.v, a[t.i + 1]) THEN "set" ELSE "none"
      [] t.op = "delete" ->
            IF t.i < Len(a) /\ a[t.i + 1] # Undefined THEN "delete" ELSE "none"
      [] OTHER -> IF hasChanged(Num(t.i), Num(Len(a))) THEN "set" ELSE "none"

\* proxy set trap (createSetter) and deleteProperty trap, the array
arrayTrap(s, t) ==
    triggerArray([s EXCEPT !.items = TrapItems(@, t)], TrapType(s.items, t),
                 IF t.op = "length" THEN LENGTH ELSE Index(t.i), t.i)

\* proxy set trap (createSetter), the array and an integer key
setIndex(s, i, value) == arrayTrap(s, Trap("index", i, value))

\* proxy set trap (createSetter), the array and the key length
setLength(s, n) == arrayTrap(s, Trap("length", n, Undefined))

\* set trap of readonlyHandlers, were the write made after the warning
readonlySetWriting(s, k, value) ==
    set([s EXCEPT !.log = Append(@, Ev("warn", 0, k, Scalar(value), NoArg))], k, value)

\* set trap of readonlyHandlers: console.warn, return true
readonlySet(s, k, value) ==
    [s EXCEPT !.log = Append(@, Ev("warn", 0, k, Scalar(value), NoArg))]

\* deleteProperty trap of readonlyHandlers: console.warn, return true
readonlyDelete(s, k) ==
    [s EXCEPT !.log = Append(@, Ev("warn", 0, k, NoArg, NoArg))]

\* the instrumented method, after the native one: resetTracking() unless an
\* effect that the native method ran has thrown
pushed(s) == IF s.err THEN s ELSE resetTracking(s)

\* what the native method reads through the proxy before it writes: push
\* the length, pop the length and, on an array that is not empty, the last
\* index
NativeReads(s, key) ==
    IF key = "pop" /\ Len(s.items) > 0 THEN getIndex(getLength(s), Len(s.items) - 1)
    ELSE getLength(s)

\* what the native method writes through the proxy: push assigns the index
\* length (and then to length the value it has, which the set trap ignores);
\* pop deletes the last index and assigns the length
NativeTraps(a, key, value) ==
    CASE key = "push" -> << Trap("index", Len(a), value) >>
      [] key = "pop" /\ Len(a) > 0 ->
            << Trap("delete", Len(a) - 1, Undefined), Trap("length", Len(a) - 1, Undefined) >>
      [] OTHER -> << Trap("length", 0, Undefined) >>

\* toRaw(this)[key].apply(this, args): the writes of the native method, one
\* after the other until one throws
native(s, traps) ==
    IF s.err \/ Len(traps) = 0 THEN s
    ELSE native(arrayTrap(s, Head(traps)), Tail(traps))

\* list.push(value) and list.pop(), the instrumented methods: the native
\* method runs on the proxy with tracking paused
instrumented(s, key, value) ==
    pushed(native(NativeReads(pauseTracking(s), key), NativeTraps(s.items, key, value)))

\* try { ... } catch (e) {} around a call of a user function
Caught(s, x) == IF x = "try" THEN [s EXCEPT !.err = FALSE] ELSE s

\* proxy deleteProperty trap, plain object
deleteProperty(s, k) ==
    IF k \in DOMAIN s.raw
    THEN trigger(LoggedWrite([s EXCEPT !.raw = [x \in DOMAIN s.raw \ {k} |-> s.raw[x]]],
                             k, Undefined, s.raw[k]),
                 "delete", k)
    ELSE s

\* trigger, were only the set of the key collected
triggerKeyOnly(s, type, k) == triggerEffects(s, s.dep[<<"key", k>>])

\* trigger, for a plain object target and an own data key
trigger(s, type, k) ==
    LET deps == IF type \in {"add", "delete"}
                THEN << s.dep[<<"key", k>>], s.dep[<<"key", ITERATE_KEY>>] >>
                ELSE << s.dep[<<"key", k>>] >>
    IN triggerEffects(s, IF Len(deps) = 1 THEN deps[1] ELSE Dedup(Flatten(deps)))

triggerAll(s, effects, i) ==
    IF s.err \/ i > Len(effects) THEN s
    ELSE triggerAll(triggerEffect(s, effects[i]), effects, i + 1)

triggerLoop(s, effects, i, computedPass) ==
    IF s.err \/ i > Len(effects) THEN s
    ELSE triggerLoop(IF (s.eff[effects[i]].kind = "computed") = computedPass
                     THEN triggerEffect(s, effects[i])
                     ELSE s,
                     effects, i + 1, computedPass)

\* the two loops merged into one: every effect in the order of the set
triggerEffectsInSetOrder(s, effects) ==
    triggerAll(s, effects, 1)

triggerEffects(s, effects) ==
    triggerLoop(triggerLoop(s, effects, 1, TRUE), effects, 1, FALSE)

triggerEffect(s, e) ==
    IF e # s.activeEffect \/ s.eff[e].allowRecurse
    THEN IF s.eff[e].sched # "none"
         THEN scheduler(Logged(s, "scheduler", e, NoArg, NoArg), e)
         ELSE run(s, e)
    ELSE s

\* effect.scheduler(), the scheduler of a computed doing nothing
schedulerNoInvalidate(s, e) ==
    CASE s.eff[e].sched = "sync" -> job(s, e)
      [] s.eff[e].sched = "post" -> queuePostRenderEffect(s, Job(e))
      [] s.eff[e].sched = "pre" -> queueJob(s, Job(e))
      [] s.eff[e].sched = "queue" -> queueJob(s, Runner(e))
      [] OTHER -> s

\* effect.scheduler()
scheduler(s, e) ==
    CASE s.eff[e].sched = "computed" ->
            IF ~s.eff[e].dirty
            THEN triggerRefValue([s EXCEPT !.eff[e].dirty = TRUE],
                                 <<"computed", s.eff[e].name>>)
            ELSE s
      [] s.eff[e].sched = "sync" -> job(s, e)
      [] s.eff[e].sched = "post" -> queuePostRenderEffect(s, Job(e))
      [] s.eff[e].sched = "pre" -> queueJob(s, Job(e))
      [] s.eff[e].sched = "queue" -> queueJob(s, Runner(e))
      [] OTHER -> s

\* self._value = self.effect.run(), s the state the run ended in
SetValue(s, e) == IF s.err THEN s ELSE [s EXCEPT !.eff[e].value = s.ret.xs[1]]

\* get value after trackRefValue: recompute if dirty, else the cached value
Recompute(s, e) ==
    IF s.eff[e].dirty
    THEN SetValue(run([s EXCEPT !.eff[e].dirty = FALSE], e), e)
    ELSE [s EXCEPT !.ret = Scalar(s.eff[e].value)]

\* ComputedRefImpl get value, without the cache
ComputedGetUncached(s, c) ==
    SetValue(run([Logged(trackRefValue(s, <<"computed", c>>), "get", s.comp[c], NoArg, NoArg)
                     EXCEPT !.eff[s.comp[c]].dirty = FALSE], s.comp[c]),
             s.comp[c])

\* ComputedRefImpl get value
ComputedGet(s, c) ==
    Recompute(Logged(trackRefValue(s, <<"computed", c>>), "get", s.comp[c], NoArg, NoArg),
              s.comp[c])

----------------------------------------------------------------------------
(* Watchers (doWatch) and user functions *)

RECURSIVE PureExec(_, _, _, _)
\* what a read-only user function returns in state s, without running it
PureExec(s, prog, i, acc) ==
    IF i > Len(prog) THEN acc
    ELSE LET ins == prog[i]
         IN PureExec(s, prog, i + 1,
                CASE ins.op = "RK" -> (IF ins.x \in DOMAIN s.raw THEN s.raw[ins.x] ELSE Undefined)
                  [] ins.op = "RR" -> s.refVal[ins.x]
                  [] ins.op = "DBL" -> Double(acc)
                  [] OTHER -> acc)

\* the getter of computed c applied to the current state
Fresh(s, c) == PureExec(s, Body(s.eff[s.comp[c]].fn), 1, Undefined)

\* the keys of the raw object in enumeration order
KeySeq(s) == (IF "a" \in DOMAIN s.raw THEN <<"a">> ELSE <<>>)
                 \o (IF "b" \in DOMAIN s.raw THEN <<"b">> ELSE <<>>)

\* traverse(proxy): the for-in loop over the keys, each read through the proxy
traverse(s, keys, i) ==
    IF i > Len(keys) THEN [s EXCEPT !.ret = Scalar(ObjProxy)]
    ELSE traverse(get(s, keys[i]), keys, i + 1)

\* the getter doWatch builds from the source
getter(s, e) ==
    CASE s.eff[e].src = "ref" -> RefGet(s, "r1")
      [] s.eff[e].src = "computed" -> ComputedGet(s, "c1")
      [] s.eff[e].src = "reactive" ->
            traverse(ownKeys(get(s, SKIP_KEY)), KeySeq(s), 1)
      [] s.eff[e].src = "array" ->
            LET s1 == RefGet(s, "r1")
                s2 == RefGet(s1, "r2")
            IN [s2 EXCEPT !.ret = List(<<s1.ret.xs[1], s2.ret.xs[1]>>)]
      [] s.eff[e].src = "none" -> [s EXCEPT !.ret = List(<<>>)]
      [] s.eff[e].src = "getter" ->
            callWithErrorHandling(
                Exec(Logged(s, "run", e, NoArg, NoArg), e, Body(s.eff[e].fn), 1, Undefined),
                "watch getter")
      [] OTHER ->
            callWithErrorHandling(
                Exec(Logged(cleanup(s, e), "run", e, NoArg, NoArg),
                     e, Body(s.eff[e].fn), 1, Undefined),
                "watch callback")

\* the old value handed to the callback, were undefined passed in all first calls
OldArgUndefined(w) ==
    IF w.oldValue = Scalar(INITIAL_WATCHER_VALUE) THEN Scalar(Undefined)
    ELSE IF w.multi /\ Len(w.oldValue.xs) > 0 /\ w.oldValue.xs[1] = INITIAL_WATCHER_VALUE
    THEN Scalar(Undefined)
    ELSE w.oldValue

\* the old value handed to the callback
OldArg(w) ==
    IF w.oldValue = Scalar(INITIAL_WATCHER_VALUE) THEN Scalar(Undefined)
    ELSE IF w.multi /\ Len(w.oldValue.xs) > 0 /\ w.oldValue.xs[1] = INITIAL_WATCHER_VALUE
    THEN List(<<>>)
    ELSE w.oldValue

\* the change test, were a multi-source watcher to need a change of every source
ValueChangedEvery(w, newValue) ==
    IF w.multi
    THEN \A i \in 1..Len(newValue.xs) : hasChanged(newValue.xs[i], w.oldValue.xs[i])
    ELSE hasChanged(newValue.xs[1], w.oldValue.xs[1])

ValueChanged(w, newValue) ==
    IF w.multi
    THEN \E i \in 1..Len(newValue.xs) : hasChanged(newValue.xs[i], w.oldValue.xs[i])
    ELSE hasChanged(newValue.xs[1], w.oldValue.xs[1])

\* the job, were the assignment oldValue = newValue left out
SetOldValueKept(s, e, newValue) == s

\* oldValue = newValue
SetOldValue(s, e, newValue) == IF s.err THEN s ELSE [s EXCEPT !.eff[e].oldValue = newValue]

\* the job of doWatch with a callback, from the state effect.run() ended in
jobCallback(s, e) ==
    LET newValue == s.ret
        w == s.eff[e]
    IN IF s.err THEN s
       ELSE IF w.deep \/ w.force \/ ValueChanged(w, newValue)
            \/ (newValue.list /\ Len(newValue.xs) = 0)
       THEN SetOldValue(callWithErrorHandling(
                            Exec(Logged(cleanup(s, e), "cb", e, newValue, OldArg(w)),
                                 e, Body(w.cb), 1, Undefined),
                            "watch callback"),
                        e, newValue)
       ELSE s

\* the job of doWatch
job(s, e) ==
    IF ~s.eff[e].active THEN s
    ELSE IF s.eff[e].cb # ""
    THEN jobCallback(run(s, e), e)
    ELSE run(s, e)

\* runner.effect = _effect: the effect can now be stopped by its owner
Bind(s, e) == IF s.err THEN s ELSE [s EXCEPT !.eff[e].bound = TRUE]

\* effect(fn, options)
effect(s, body, sched) ==
    Bind(run(construct(s, NewEffect("effect", body, sched)), Len(s.eff) + 1), Len(s.eff) + 1)

\* EffectScope.run, were the ambient scope not restored
scopeRunNoRestore(s, currentEffectScope) == s

\* EffectScope.run, the finally block
scopeRunFinally(s, currentEffectScope) == [s EXCEPT !.activeEffectScope = currentEffectScope]

\* EffectScope.run
scopeRun(s, sc, prog) ==
    IF s.scope[sc].active
    THEN scopeRunFinally(Exec([s EXCEPT !.activeEffectScope = sc], 0, Body(prog), 1, Undefined),
                         s.activeEffectScope)
    ELSE Logged(s, "warn", 0, NoArg, NoArg)

\* a function registered with onScopeDispose, called
callCleanup(s, sc, i) ==
    IF s.scope[sc].cleanups[i] = "stopOwn" /\ s.scope[sc].ran[i] = 0
    THEN scopeStop(Logged([s EXCEPT !.scope[sc].ran[i] = @ + 1], "dispose", sc, NoArg, NoArg),
                   sc, FALSE)
    ELSE Logged([s EXCEPT !.scope[sc].ran[i] = @ + 1], "dispose", sc, NoArg, NoArg)

\* EffectScope.stop: this.effects[i].stop()
stopEffectsLoop(s, sc, i, l) ==
    IF s.err \/ i > l THEN s
    ELSE stopEffectsLoop(stop(s, s.scope[sc].effects[i]), sc, i + 1, l)

\* EffectScope.stop: this.cleanups[i]()
stopCleanupsLoop(s, sc, i, l) ==
    IF s.err \/ i > l THEN s
    ELSE stopCleanupsLoop(callCleanup(s, sc, i), sc, i + 1, l)

\* EffectScope.stop: this.scopes[i].stop(true); an empty slot has no stop
stopScopesLoop(s, sc, i, l) ==
    IF s.err \/ i > l THEN s
    ELSE IF i > Len(s.scope[sc].scopes) \/ s.scope[sc].scopes[i] = 0
    THEN [s EXCEPT !.err = TRUE]
    ELSE stopScopesLoop(scopeStop(s, s.scope[sc].scopes[i], TRUE), sc, i + 1, l)

\* the three loops, each with the length its array has when the loop starts
stopEffects(s, sc) == stopEffectsLoop(s, sc, 1, Len(s.scope[sc].effects))
stopCleanups(s, sc) == stopCleanupsLoop(s, sc, 1, Len(s.scope[sc].cleanups))
stopScopes(s, sc) == stopScopesLoop(s, sc, 1, Len(s.scope[sc].scopes))

\* array[index] = x, index counted from 0: an index past the end leaves
\* empty slots (0)
SetAt(array, index, x) ==
    [ i \in 1..(IF index + 1 > Len(array) THEN index + 1 ELSE Len(array)) |->
        IF i = index + 1 THEN x ELSE IF i <= Len(array) THEN array[i] ELSE 0 ]

\* EffectScope.stop: the scope leaves its parent's scopes (pop, and the last
\* takes its place)
detachKeepIndex(s, sc) ==
    LET p == s.scope[sc].parent
        arr == s.scope[p].scopes
        last == IF Len(arr) > 0 THEN arr[Len(arr)] ELSE 0
        popped == IF Len(arr) > 0 THEN SubSeq(arr, 1, Len(arr) - 1) ELSE arr
    IN IF last # 0 /\ last # sc
       THEN [s EXCEPT !.scope[p].scopes = SetAt(popped, s.scope[sc].index, last)]
       ELSE [s EXCEPT !.scope[p].scopes = popped]

detach(s, sc) ==
    LET p == s.scope[sc].parent
        arr == s.scope[p].scopes
        last == IF Len(arr) > 0 THEN arr[Len(arr)] ELSE 0
        popped == IF Len(arr) > 0 THEN SubSeq(arr, 1, Len(arr) - 1) ELSE arr
    IN IF last # 0 /\ last # sc
       THEN [s EXCEPT !.scope[p].scopes = SetAt(popped, s.scope[sc].index, last),
                      !.scope[last].index = s.scope[sc].index]
       ELSE [s EXCEPT !.scope[p].scopes = popped]

\* EffectScope.stop, after the loops
stopEnd(s, sc, fromParent) ==
    IF s.err THEN s
    ELSE [(IF ~s.scope[sc].detached /\ s.scope[sc].parent # 0 /\ ~fromParent
           THEN detach(s, sc) ELSE s) EXCEPT !.scope[sc].active = FALSE]

\* EffectScope.stop
scopeStopChildrenFirst(s, sc, fromParent) ==
    IF s.scope[sc].active
    THEN stopEnd(stopCleanups(stopEffects(stopScopes(s, sc), sc), sc), sc, fromParent)
    ELSE s

scopeStop(s, sc, fromParent) ==
    IF s.scope[sc].active
    THEN stopEnd(stopScopes(stopCleanups(stopEffects(s, sc), sc), sc), sc, fromParent)
    ELSE s

\* the value c.value gave a user function, with the getter's result at that point
LoggedRead(s, self, c) ==
    IF s.err THEN s ELSE Logged(s, "readComputed", self, s.ret, Scalar(Fresh(s, c)))

\* a user function goes on after instruction i with the value it has read
ExecRead(s, self, prog, i) == Exec(s, self, prog, i + 1, s.ret.xs[1])

\* a user function, instruction i onwards; self is the effect it belongs to
Exec(s, self, prog, i, acc) ==
    IF s.err THEN s
    ELSE IF i > Len(prog) THEN [s EXCEPT !.ret = Scalar(acc)]
    ELSE LET ins == prog[i]
             val == IF ins.v = Acc THEN acc ELSE ins.v
         IN CASE ins.op = "RK" -> ExecRead(get(s, ins.x), self, prog, i)
              [] ins.op = "RR" -> ExecRead(RefGet(s, ins.x), self, prog, i)
              [] ins.op = "RC" ->
                    ExecRead(LoggedRead(ComputedGet(s, ins.x), self, ins.x), self, prog, i)
              [] ins.op = "WK" -> Exec(set(s, ins.x, val), self, prog, i + 1, acc)
              [] ins.op = "WR" -> Exec(RefSet(s, ins.x, val), self, prog, i + 1, acc)
              [] ins.op = "DBL" -> Exec(s, self, prog, i + 1, Double(acc))
              [] ins.op = "EFF" -> Exec(effect(s, ins.x, "none"), self, prog, i + 1, acc)
              [] ins.op = "DISP" -> Exec(onScopeDispose(s, ins.x), self, prog, i + 1, acc)
              [] ins.op = "SCOPE" ->
                    Exec(scopeRun(effectScope(s, ins.v = Num(1)), Len(s.scope) + 1, ins.x),
                         self, prog, i + 1, acc)
              [] ins.op = "RI" -> ExecRead(getIndex(s, ins.v.n), self, prog, i)
              [] ins.op = "RLEN" -> ExecRead(getLength(s), self, prog, i)
              [] ins.op \in {"PUSH", "POP"} ->
                    Exec(Caught(instrumented(s, IF ins.op = "PUSH" THEN "push" ELSE "pop",
                                             ins.v), ins.x),
                         self, prog, i + 1, acc)
              [] ins.op = "ONCLEANUP" ->
                    Exec(IF ins.x = "once" /\ s.eff[self].onStop THEN s
                         ELSE onCleanup(s, self), self, prog, i + 1, acc)
              [] ins.op = "KEYS" -> Exec(ownKeys(s), self, prog, i + 1, acc)
              [] ins.op = "IN" -> ExecRead(has(s, ins.x), self, prog, i)
              [] ins.op = "RETIF" ->
                    IF acc = ins.v THEN [s EXCEPT !.ret = Scalar(acc)]
                    ELSE Exec(s, self, prog, i + 1, acc)
              [] ins.op = "THROWIF" ->
                    IF acc = ins.v THEN [s EXCEPT !.err = TRUE]
                    ELSE Exec(s, self, prog, i + 1, acc)
              [] ins.op = "STOP" ->
                    Exec(IF s.eff[self].bound THEN stop(s, self) ELSE s,
                         self, prog, i + 1, acc)
              [] OTHER -> Exec(s, self, prog, i + 1, acc)

----------------------------------------------------------------------------
(* Scheduler: flushing *)

RECURSIVE flushPreFlushCbs(_, _), flushMain(_), postLoop(_, _), flushJobs(_),
          flushAgain(_)

RemoveAt(seq, i) == SubSeq(seq, 1, i - 1) \o SubSeq(seq, i + 1, Len(seq))

\* the job a job with id n enqueues when it runs: job 1 enqueues job 3, job 2
\* enqueues job 1, the others none
Child(n) == CASE n = 1 -> 3 [] n = 2 -> 1 [] OTHER -> 0

\* job(): a queue entry called
Call(s, j) ==
    CASE j.k = "job" -> job(s, j.e)
      [] j.k = "run" -> run(s, j.e)
      [] OTHER -> IF Child(j.e) # 0 THEN queueJob(s, IdJob(Child(j.e))) ELSE s

\* the scheduler is about to call entry j in the given phase of a flush
LoggedCall(s, phase, j) == [s EXCEPT !.log = Append(@, Ev(phase, j.e, j.k, NoArg, NoArg))]

\* flushPreFlushCbs(seen, i), i counted from 0
flushPreFlushCbs(s, i) ==
    IF s.err \/ i >= Len(s.queue) THEN s
    ELSE LET cb == s.queue[i + 1]
         IN IF JobPre(s, cb)
            THEN flushPreFlushCbs(
                     Call(LoggedCall([s EXCEPT !.queue = RemoveAt(@, i + 1)], "pre", cb), cb), i)
            ELSE flushPreFlushCbs(s, i + 1)

\* the for loop of flushJobs over queue[flushIndex]
flushMain(s) ==
    IF s.err \/ s.flushIndex >= Len(s.queue) THEN s
    ELSE flushMain([callWithErrorHandling(
                        Call(LoggedCall(s, "job", s.queue[s.flushIndex + 1]),
                             s.queue[s.flushIndex + 1]),
                        "scheduler flush")
                       EXCEPT !.flushIndex = @ + 1])

\* the for loop of flushPostFlushCbs over deduped[postFlushIndex]
postLoop(s, i) ==
    IF s.err \/ i > Len(s.currentPostFlushParentJob.cbs) THEN s
    ELSE postLoop(Call(LoggedCall(s, "post", s.currentPostFlushParentJob.cbs[i]),
                       s.currentPostFlushParentJob.cbs[i]), i + 1)

\* flushPostFlushCbs after its loop
postEnd(s) == IF s.err THEN s ELSE [s EXCEPT !.currentPostFlushParentJob = Null]

flushPostFlushCbs(s) ==
    IF Len(s.pendingPostFlushCbs) > 0
    THEN IF s.currentPostFlushParentJob.set
         THEN [s EXCEPT !.pendingPostFlushCbs = <<>>,
                        !.currentPostFlushParentJob.cbs = @ \o Dedup(s.pendingPostFlushCbs)]
         ELSE postEnd(postLoop([s EXCEPT !.pendingPostFlushCbs = <<>>,
                                         !.currentPostFlushParentJob =
                                             Array(SortById(Dedup(s.pendingPostFlushCbs)))], 1))
    ELSE s

\* the default of flushPreFlushCbs's parameter i, evaluated at the call
PreStart(s) == IF s.isFlushing THEN s.flushIndex + 1 ELSE 0

\* flushJobs: the pre pass, from its first lines
flushPre(s) == flushPreFlushCbs(s, PreStart(s))

\* flushJobs: isFlushing = false, after flushPostFlushCbs has returned
flushIdle(s) ==
    IF s.err THEN s
    ELSE Flags([s EXCEPT !.isFlushing = FALSE, !.currentFlushPromise = "null"])

\* flushJobs: the finally block, from the state the loop over the queue ended in
flushFinally(s) ==
    IF s.err THEN s
    ELSE flushIdle(flushPostFlushCbs([s EXCEPT !.flushIndex = 0, !.queue = <<>>,
                                               !.inLoop = FALSE]))

flushOnce(s) == s

\* flushJobs: the recursion at its end
flushAgain(s) ==
    IF s.err THEN s
    ELSE IF Len(s.queue) > 0 \/ Len(s.pendingPostFlushCbs) > 0 THEN flushJobs(s) ELSE s

\* flushJobs, were the post-flush callbacks called before the loop over the queue
flushTryAfterPost(s) ==
    IF s.err THEN s
    ELSE flushMain([flushPostFlushCbs(s) EXCEPT !.queue = SortById(@), !.flushIndex = 0,
                                               !.inLoop = TRUE])

\* flushJobs: the try block, reached when the pre pass has returned
flushTry(s) ==
    IF s.err THEN s
    ELSE flushMain([s EXCEPT !.queue = SortById(@), !.flushIndex = 0, !.inLoop = TRUE])

flushJobs(s) ==
    flushAgain(flushFinally(flushTry(
        flushPre(Flags([Logged(s, "flushJobs", 0, NoArg, NoArg)
                           EXCEPT !.isFlushPending = FALSE, !.isFlushing = TRUE])))))

\* the queue entries the scheduler called in a log
CalledIn(lg) ==
    { [k |-> lg[p].x, e |-> lg[p].e] : p \in { q \in 1..Len(lg) : lg[q].ev \in {"pre", "job", "post"} } }

\* the callbacks chained to the flush promise as microtasks, each with what
\* it still waits for after the flush that made the calls in lg
RECURSIVE TickTasks(_, _)
TickTasks(wants, lg) ==
    IF Len(wants) = 0 THEN <<>>
    ELSE <<TickTask(Head(wants) \ CalledIn(lg))>> \o TickTasks(Tail(wants), lg)

\* the promise of resolvedPromise.then(flushJobs) settles when flushJobs has
\* returned or thrown: fulfilled, the callbacks chained to it become microtasks;
\* rejected, they are never called
settle(s) ==
    IF s.err
    THEN [s EXCEPT !.reactions = <<>>,
                   !.currentFlushPromise = IF @ = "pending" THEN "rejected" ELSE @]
    ELSE [s EXCEPT !.reactions = <<>>,
                   !.microtasks = @ \o TickTasks(s.reactions, s.log)]

\* what nextTick(fn) does with fn: p = currentFlushPromise || resolvedPromise
nextTick(s, want) ==
    CASE s.currentFlushPromise = "null" ->
            [s EXCEPT !.microtasks = Append(@, TickTask(want))]
      [] s.currentFlushPromise = "pending" ->
            [s EXCEPT !.reactions = Append(@, want)]
      [] OTHER -> s

----------------------------------------------------------------------------
(* Wrapping: reactive, shallowReactive, readonly, shallowReadonly, toRaw *)

\* the objects that are wrapped: {}, new Map(), markRaw({}), Object.freeze({})
RawObjects == { [t |-> k, n |-> 0] : k \in {"plain", "map", "skip", "frozen"} }
\* the i-th proxy made
ProxyValue(i) == [t |-> "proxy", n |-> i]
isProxyValue(v) == v.t = "proxy"
\* the result of a call that threw
Thrown == [t |-> "thrown", n |-> 0]

\* proxyMap.get(key), 0 for undefined; a map is a set of <<key, proxy>>
MapGet(m, key) ==
    IF \E p \in m : p[1] = key THEN (CHOOSE p \in m : p[1] = key)[2] ELSE 0

\* the cache createGetter compares the receiver with, and the one
\* createReactiveObject is given
ProxyMapOf(s, isReadonly, shallow) ==
    IF isReadonly
    THEN (IF shallow THEN s.shallowReadonlyMap ELSE s.readonlyMap)
    ELSE (IF shallow THEN s.shallowReactiveMap ELSE s.reactiveMap)

\* proxyMap.set(target, proxy)
ProxyMapSet(s, isReadonly, shallow, target, i) ==
    IF isReadonly
    THEN (IF shallow THEN [s EXCEPT !.shallowReadonlyMap = @ \cup {<<target, i>>}]
          ELSE [s EXCEPT !.readonlyMap = @ \cup {<<target, i>>}])
    ELSE (IF shallow THEN [s EXCEPT !.shallowReactiveMap = @ \cup {<<target, i>>}]
          ELSE [s EXCEPT !.reactiveMap = @ \cup {<<target, i>>}])

\* value["__v_raw"]: the get trap gives the target to the proxy the cache of
\* its own kind holds for the target
RawOf(s, v) ==
    IF /\ isProxyValue(v)
       /\ MapGet(ProxyMapOf(s, s.proxies[v.n].isReadonly, s.proxies[v.n].shallow),
                 s.proxies[v.n].target) = v.n
    THEN s.proxies[v.n].target
    ELSE Undefined

\* value["__v_isReactive"] and value["__v_isReadonly"]
IsReactiveFlag(s, v) == isProxyValue(v) /\ ~s.proxies[v.n].isReadonly
IsReadonlyFlag(s, v) == isProxyValue(v) /\ s.proxies[v.n].isReadonly

RECURSIVE Reflected(_, _)
\* the object that an operation without a trap, or a get of a key that the
\* get trap passes on, reaches through the proxies
Reflected(s, v) == IF isProxyValue(v) THEN Reflected(s, s.proxies[v.n].target) ELSE v

toRawType(s, v) ==
    IF Reflected(s, v).t = "map" THEN "Map"
    ELSE IF Reflected(s, v).t = "array" THEN "Array" ELSE "Object"

\* val !== null && typeof val === 'object', for the values of the model
isObject(v) == ~IsNumber(v) /\ v # Undefined

targetTypeMap(rawType) ==
    CASE rawType \in {"Object", "Array"} -> 1
      [] rawType \in {"Map", "Set", "WeakMap", "WeakSet"} -> 2
      [] OTHER -> 0

getTargetType(s, v) ==
    IF Reflected(s, v).t = "skip" \/ Reflected(s, v).t = "frozen" THEN 0
    ELSE targetTypeMap(toRawType(s, v))

\* a call returns v
Returned(s, v) == [s EXCEPT !.ret = Scalar(v)]

\* createReactiveObject, the proxy map being the one of (isReadonly, shallow);
\* collectionHandlers is null: new Proxy(target, null) throws a TypeError
createReactiveObject(s, target, isReadonly, shallow) ==
    IF ~isObject(target)
    THEN Returned([s EXCEPT !.log = Append(@, Ev("warn", 0, "", Scalar(target), NoArg))],
                  target)
    ELSE IF RawOf(s, target) # Undefined /\ ~(isReadonly /\ IsReactiveFlag(s, target))
    THEN Returned(s, target)
    ELSE IF MapGet(ProxyMapOf(s, isReadonly, shallow), target) # 0
    THEN Returned(s, ProxyValue(MapGet(ProxyMapOf(s, isReadonly, shallow), target)))
    ELSE IF getTargetType(s, target) = 0 THEN Returned(s, target)
    ELSE IF getTargetType(s, target) = 2 THEN [s EXCEPT !.err = TRUE]
    ELSE Returned(
             ProxyMapSet([s EXCEPT !.proxies = Append(@, [target |-> target,
                                                         isReadonly |-> isReadonly,
                                                         shallow |-> shallow])],
                         isReadonly, shallow, target, Len(s.proxies) + 1),
             ProxyValue(Len(s.proxies) + 1))

reactive(s, target) ==
    IF IsReadonlyFlag(s, target) THEN Returned(s, target)
    ELSE createReactiveObject(s, target, FALSE, FALSE)

shallowReactive(s, target) == createReactiveObject(s, target, FALSE, TRUE)

readonly(s, target) == createReactiveObject(s, target, TRUE, FALSE)

shallowReadonly(s, target) == createReactiveObject(s, target, TRUE, TRUE)

RECURSIVE toRaw(_, _)
toRaw(s, observed) ==
    IF RawOf(s, observed) # Undefined THEN toRaw(s, RawOf(s, observed))
    ELSE Returned(s, observed)

toReactive(s, value) == IF isObject(value) THEN reactive(s, value) ELSE Returned(s, value)

\* new RefImpl(value, false): this._value = toReactive(value); the ref made
\* is RefValue(0)
RefImpl(s) == IF s.err THEN s ELSE Returned(s, RefValue(0))

createRef(s, rawValue) ==
    IF isRef(rawValue) THEN Returned(s, rawValue) ELSE RefImpl(toReactive(s, rawValue))

ref(s, value) == createRef(s, value)

\* the functions that wrap
Wrappers == {"reactive", "shallowReactive", "readonly", "shallowReadonly"}

\* f(v), f the name of one of the functions above
CallByName(s, f, v) ==
    CASE f = "reactive" -> reactive(s, v)
      [] f = "shallowReactive" -> shallowReactive(s, v)
      [] f = "readonly" -> readonly(s, v)
      [] f = "shallowReadonly" -> shallowReadonly(s, v)
      [] f = "ref" -> ref(s, v)
      [] OTHER -> toRaw(s, v)

\* the caller of a wrapping function or of toRaw has its result, or the
\* exception
Result(s) == [s EXCEPT !.returned = IF s.err THEN Thrown ELSE s.ret.xs[1]]

----------------------------------------------------------------------------
(* The state machine *)

\* the state a top-level call starts from
S == [ raw |-> raw, refVal |-> refVal, eff |-> eff, dep |-> dep, comp |-> comp,
       activeEffect |-> activeEffect, shouldTrack |-> shouldTrack,
       queue |-> queue, pendingPostFlushCbs |-> pendingPostFlushCbs,
       isFlushing |-> isFlushing, isFlushPending |-> isFlushPending,
       flushIndex |-> flushIndex,
       currentPostFlushParentJob |-> currentPostFlushParentJob, scope |-> scope,
       activeEffectScope |-> activeEffectScope,
       currentFlushPromise |-> currentFlushPromise, microtasks |-> microtasks,
       reactions |-> reactions, bothFlags |-> bothFlags, calls |-> <<>>,
       inLoop |-> FALSE,
       items |-> items, itemKeys |-> itemKeys, trackStack |-> trackStack,
       proxies |-> proxies, reactiveMap |-> reactiveMap,
       shallowReactiveMap |-> shallowReactiveMap, readonlyMap |-> readonlyMap,
       shallowReadonlyMap |-> shallowReadonlyMap, returned |-> returned,
       log |-> <<>>, stale |-> stale, ret |-> NoArg, err |-> FALSE ]

Act(name, e, x, v) == [name |-> name, e |-> e, x |-> x, v |-> v]

\* the state a top-level call ends in
Apply(s, a) ==
    /\ raw' = s.raw
    /\ refVal' = s.refVal
    /\ eff' = s.eff
    /\ dep' = s.dep
    /\ comp' = s.comp
    /\ activeEffect' = s.activeEffect
    /\ shouldTrack' = s.shouldTrack
    /\ queue' = s.queue
    /\ pendingPostFlushCbs' = s.pendingPostFlushCbs
    /\ isFlushing' = s.isFlushing
    /\ isFlushPending' = s.isFlushPending
    /\ flushIndex' = s.flushIndex
    /\ currentPostFlushParentJob' = s.currentPostFlushParentJob
    /\ scope' = s.scope
    /\ activeEffectScope' = s.activeEffectScope
    /\ currentFlushPromise' = s.currentFlushPromise
    /\ microtasks' = s.microtasks
    /\ reactions' = s.reactions
    /\ bothFlags' = s.bothFlags
    /\ items' = s.items
    /\ itemKeys' = s.itemKeys
    /\ trackStack' = s.trackStack
    /\ proxies' = s.proxies
    /\ reactiveMap' = s.reactiveMap
    /\ shallowReactiveMap' = s.shallowReactiveMap
    /\ readonlyMap' = s.readonlyMap
    /\ shallowReadonlyMap' = s.shallowReadonlyMap
    /\ returned' = s.returned
    /\ log' = IF s.err THEN Append(s.log, Ev("uncaught", 0, "", NoArg, NoArg)) ELSE s.log
    /\ stale' = s.stale
    /\ act' = a

Init ==
    /\ raw = [k \in {"a"} |-> Num(0)]
    /\ refVal = [r \in Refs |-> Num(0)]
    /\ eff = <<>>
    /\ dep = [d \in DepIds |-> <<>>]
    /\ comp = [c \in Comps |-> 0]
    /\ activeEffect = 0
    /\ shouldTrack = TRUE
    /\ queue = <<>>
    /\ pendingPostFlushCbs = <<>>
    /\ isFlushing = FALSE
    /\ isFlushPending = FALSE
    /\ flushIndex = 0
    /\ currentPostFlushParentJob = Null
    /\ scope = <<>>
    /\ activeEffectScope = 0
    /\ currentFlushPromise = "null"
    /\ microtasks = <<>>
    /\ reactions = <<>>
    /\ bothFlags = FALSE
    /\ items = <<>>
    /\ itemKeys = <<>>
    /\ trackStack = <<>>
    /\ proxies = <<>>
    /\ reactiveMap = {}
    /\ shallowReactiveMap = {}
    /\ readonlyMap = {}
    /\ shallowReadonlyMap = {}
    /\ returned = Undefined
    /\ log = <<>>
    /\ stale = [c \in Comps |-> TRUE]
    /\ act = Act("Init", 0, "", Undefined)

Created(c) == comp[c] # 0
Watchers == { e \in 1..Len(eff) : eff[e].kind = "watch" }

\* effect(fn) and effect(fn, {scheduler: () => queueJob(runner)})
CreateEffect(body, sched) ==
    /\ Len(eff) < MaxEffects
    /\ \A c \in ReadsComputed(body) : Created(c)
    /\ Apply(effect(S, body, sched), Act("CreateEffect", Len(eff) + 1, body, Undefined))

\* c = computed(getter)
CreateComputed(c, body) ==
    /\ Len(eff) < MaxEffects
    /\ ~Created(c)
    /\ LET e == Len(eff) + 1
           new == [NewEffect("computed", body, "computed") EXCEPT
                      !.name = c, !.dirty = TRUE]
       IN Apply([construct(S, new) EXCEPT !.comp[c] = e],
                Act("CreateComputed", e, c, Undefined))

\* doWatch, were the value of the first run not remembered
InitialValueUnset(s, e) == s

\* oldValue = effect.run()
InitialValue(s, e) == SetOldValue(s, e, s.ret)

\* doWatch(source, cb, {immediate, flush})
doWatch(src, cb, immediate, flush) ==
    /\ Len(eff) < MaxEffects
    /\ src = "computed" => Created("c1")
    /\ LET e == Len(eff) + 1
           new == [NewEffect("watch", IF src = "getter" THEN "readA" ELSE "", flush) EXCEPT
                      !.src = src, !.cb = cb,
                      !.deep = (src = "reactive"),
                      !.multi = (src \in {"array", "none"}),
                      !.oldValue = IF src = "array"
                                   THEN List(<<INITIAL_WATCHER_VALUE, INITIAL_WATCHER_VALUE>>)
                                   ELSE IF src = "none" THEN List(<<>>)
                                   ELSE Scalar(INITIAL_WATCHER_VALUE)]
           s0 == construct(S, new)
           s1 == IF immediate THEN job(s0, e)
                 ELSE InitialValue(run(s0, e), e)
       IN Apply(Bind(s1, e),
                Act(IF immediate THEN "WatchImmediate" ELSE "Watch", e, src, Undefined))

\* watch(source, cb, {immediate, flush})
Watch(src, cb, immediate, flush) ==
    /\ Cardinality(Watchers) < MaxWatchers
    /\ doWatch(src, cb, immediate, flush)

\* watch(source, cb, {flush}), in a run with several watchers
WatchMany(src, cb, flush) ==
    /\ Cardinality(Watchers) < MaxQueuedWatchers
    /\ doWatch(src, cb, FALSE, flush)

\* queueJob(job), job.id = n
QueueJob(n) == Apply(queueJob(S, IdJob(n)), Act("QueueJob", n, "", Undefined))

\* the jobs and post-flush callbacks enqueued and not yet called
Pending == { queue[i] : i \in 1..Len(queue) }
             \cup { pendingPostFlushCbs[i] : i \in 1..Len(pendingPostFlushCbs) }

\* nextTick(fn)
NextTick ==
    /\ Count(microtasks, LAMBDA t : t.k = "tick") + Len(reactions) < MaxTicks
    /\ Apply(nextTick(S, Pending), Act("NextTick", 0, currentFlushPromise, Undefined))

\* the microtask that calls a callback given to nextTick
Tick ==
    /\ Len(microtasks) > 0
    /\ Head(microtasks).k = "tick"
    /\ Apply([S EXCEPT !.microtasks = Tail(@)], Act("Tick", 0, "", Undefined))

\* watchEffect(fn, {flush})
WatchEffect(body, flush) ==
    /\ Len(eff) < MaxEffects
    /\ Cardinality(Watchers) < MaxWatchers
    /\ \A c \in ReadsComputed(body) : Created(c)
    /\ LET e == Len(eff) + 1
           new == [NewEffect("watch", body, flush) EXCEPT !.src = "effect"]
           s0 == construct(S, new)
           s1 == IF flush = "post" THEN queuePostRenderEffect(s0, Runner(e))
                 ELSE run(s0, e)
       IN Apply(Bind(s1, e), Act("WatchEffect", e, body, Undefined))

\* stop(runner), or the stop function doWatch returned
Stop(e) ==
    /\ e \in 1..Len(eff)
    /\ eff[e].kind # "computed"
    /\ Apply(stop(S, e), Act("Stop", e, "", Undefined))

\* scope = effectScope()
CreateScope ==
    /\ Len(scope) < MaxScopes
    /\ Apply(effectScope(S, FALSE), Act("CreateScope", Len(scope) + 1, "", Undefined))

\* scope.run(fn)
ScopeRun(sc, prog) ==
    /\ sc \in 1..Len(scope)
    /\ Len(scope) + CreatesFrom(prog, "SCOPE", 1) <= MaxScopes
    /\ Len(eff) + CreatesFrom(prog, "EFF", 1) <= MaxEffects
    /\ Len(scope[sc].cleanups) + Count(Body(prog), LAMBDA ins : ins.op = "DISP") <= MaxCleanups
    /\ Apply(scopeRun(S, sc, prog), Act("ScopeRun", sc, prog, Undefined))

\* scope.stop()
ScopeStop(sc) ==
    /\ sc \in 1..Len(scope)
    /\ \A c \in 1..Len(scope) : \A i \in 1..Len(scope[c].ran) : scope[c].ran[i] < MaxCalls
    /\ Apply(scopeStop(S, sc, FALSE), Act("ScopeStop", sc, "", Undefined))

\* state.k = v
WriteKey(k, v) == Apply(set(S, k, v), Act("WriteKey", 0, k, v))

\* delete state.k
DeleteKey(k) == Apply(deleteProperty(S, k), Act("DeleteKey", 0, k, Undefined))

\* readonly(state).k = v
WriteReadonly(k, v) == Apply(readonlySet(S, k, v), Act("WriteReadonly", 0, k, v))

\* delete readonly(state).k
DeleteReadonly(k) == Apply(readonlyDelete(S, k), Act("DeleteReadonly", 0, k, Undefined))

\* the objects and the proxies a program holds
Known == RawObjects \cup { ProxyValue(i) : i \in 1..Len(proxies) }

\* reactive(v), shallowReactive(v), readonly(v), shallowReadonly(v)
Wrap(f, v) ==
    /\ Len(proxies) < MaxProxies
    /\ Apply(Result(CallByName(S, f, v)), Act("Wrap", 0, f, v))

\* toRaw(v)
ToRaw(v) == Apply(Result(toRaw(S, v)), Act("ToRaw", 0, "toRaw", v))

\* list[i] = v
WriteIndex(i, v) == Apply(setIndex(S, i, v), Act("WriteIndex", i, "", v))

\* list.length = n
WriteLength(n) == Apply(setLength(S, n), Act("WriteLength", n, "", Undefined))

\* r.value = v
WriteRef(r, v) == Apply(RefSet(S, r, v), Act("WriteRef", 0, r, v))

\* c.value, read outside any effect
ReadComputed(c) ==
    /\ Created(c)
    /\ Apply(ComputedGet(S, c), Act("ReadComputed", comp[c], c, Undefined))

\* the microtask queueFlush scheduled, at the head of the microtask queue
Flush ==
    /\ Len(microtasks) > 0
    /\ Head(microtasks).k = "flushJobs"
    /\ Apply(settle(flushJobs([S EXCEPT !.microtasks = Tail(@)])),
             Act("Flush", 0, "", Undefined))

Bit == {Num(0), Num(1)}

\* effects made with effect(), with and without a scheduler
NextEffect ==
    \/ \E body \in {"readA", "readAsetR1", "readR1setA", "stopReadA"},
          sched \in {"none", "queue"} : CreateEffect(body, sched)
    \/ \E e \in 1..MaxEffects : Stop(e)
    \/ \E v \in Bit : WriteKey("a", v)
    \/ \E v \in Bit : WriteRef("r1", v)
    \/ Flush

SpecEffect == Init /\ [][NextEffect]_vars

\* writes of values that are, or are not, the same as the current one
NextSame ==
    \/ \E body \in {"readA", "readR1"}, sched \in {"none", "queue"} :
          CreateEffect(body, sched)
    \/ \E src \in {"ref", "getter"}, flush \in {"sync", "pre", "post"} :
          Watch(src, "noop", FALSE, flush)
    \/ \E v \in {Num(0), NegZero, NaN} : WriteKey("a", v)
    \/ \E v \in {Num(0), NegZero, NaN} : WriteRef("r1", v)
    \/ Flush

SpecSame == Init /\ [][NextSame]_vars

\* a computed and the effects and watchers that read it
NextComputed ==
    \/ CreateComputed("c1", "doubleR1")
    \/ \E body \in {"readR1", "readR1C1", "readAsetR1"}, sched \in {"none", "queue"} :
          CreateEffect(body, sched)
    \/ \E flush \in {"sync", "pre", "post"} : WatchEffect("readR1C1", flush)
    \/ \E v \in Bit : WriteRef("r1", v)
    \/ \E v \in Bit : WriteKey("a", v)
    \/ ReadComputed("c1")
    \/ Flush

SpecComputed == Init /\ [][NextComputed]_vars

\* watchers of every kind of source
NextWatch ==
    \/ \E src \in {"ref", "reactive", "getter", "array"},
          immediate \in BOOLEAN, flush \in {"sync", "pre", "post"} :
              Watch(src, "noop", immediate, flush)
    \/ \E v \in Bit : WriteKey("a", v)
    \/ \E r \in {"r1", "r2"}, v \in Bit : WriteRef(r, v)
    \/ Flush

SpecWatch == Init /\ [][NextWatch]_vars

\* watchers that are stopped
NextStop ==
    \/ \E cb \in {"noop", "stop"}, flush \in {"sync", "pre", "post"} :
              Watch("ref", cb, FALSE, flush)
    \/ \E flush \in {"sync", "pre", "post"} : WatchEffect("readR1", flush)
    \/ \E e \in 1..MaxEffects : Stop(e)
    \/ \E v \in Bit : WriteRef("r1", v)
    \/ Flush

SpecStop == Init /\ [][NextStop]_vars

\* effect scopes: effects, cleanups and nested scopes made in scope.run
NextScope ==
    \/ CreateScope
    \/ \E sc \in 1..MaxScopes,
          prog \in {"scopeEffect", "scopeChild", "scopeDetached", "scopeStopper",
                    "scopeChildStopper", "scopeChildThrow"} : ScopeRun(sc, prog)
    \/ \E sc \in 1..MaxScopes : ScopeStop(sc)
    \/ \E v \in Bit : WriteKey("a", v)

SpecScope == Init /\ [][NextScope]_vars

\* scope.run with nested scopes and a throwing function, and effects made
\* outside any run
NextScopeRun ==
    \/ CreateScope
    \/ \E sc \in 1..MaxScopes,
          prog \in {"scopeEffect", "scopeChild", "scopeDetached", "scopeNest",
                    "scopeChildThrow"} : ScopeRun(sc, prog)
    \/ \E sc \in 1..MaxScopes : ScopeStop(sc)
    \/ CreateEffect("readA", "none")

SpecScopeRun == Init /\ [][NextScopeRun]_vars

\* user functions that throw: an effect body, a watcher callback, the
\* getter of a computed that a watcher watches
NextError ==
    \/ \E body \in {"readA", "throwIfA"} : CreateEffect(body, "none")
    \/ CreateComputed("c1", "throwIfR1")
    \/ \E flush \in {"sync", "pre", "post"} : Watch("computed", "noop", FALSE, flush)
    \/ \E flush \in {"sync", "pre", "post"} : Watch("getter", "throw", FALSE, flush)
    \/ \E v \in Bit : WriteKey("a", v)
    \/ \E v \in Bit : WriteRef("r1", v)
    \/ Flush

SpecError == Init /\ [][NextError]_vars

Next ==
    \/ \E body \in {"readA", "readR1", "readR1C1", "readAsetR1", "readR1setA", "stopReadA"},
          sched \in {"none", "queue"} : CreateEffect(body, sched)
    \/ CreateComputed("c1", "doubleR1")
    \/ \E src \in {"ref", "reactive", "getter", "array"}, cb \in {"noop", "stop"},
          immediate \in BOOLEAN, flush \in {"sync", "pre", "post"} :
              Watch(src, cb, immediate, flush)
    \/ \E body \in {"readA", "readR1"}, flush \in {"sync", "pre", "post"} :
              WatchEffect(body, flush)
    \/ \E e \in 1..MaxEffects : Stop(e)
    \/ \E k \in {"a"}, v \in {Num(0), Num(1)} : WriteKey(k, v)
    \/ \E r \in {"r1"}, v \in {Num(0), Num(1)} : WriteRef(r, v)
    \/ ReadComputed("c1")
    \/ Flush

Spec == Init /\ [][Next]_vars

----------------------------------------------------------------------------
(* Properties *)

\* how often the last top-level call executed the user function of effect e
RunsOf(lg, e) == Count(lg, LAMBDA x : x.ev = "run" /\ x.e = e)
\* how many writes of the last top-level call changed key or ref x
WritesOf(lg, x) == Count(lg, LAMBDA y : y.ev = "write" /\ y.x = x)

\* an effect made by effect(fn), without and with a scheduler
Plain(e) == eff[e].kind = "effect" /\ eff[e].sched = "none"
Queued(e) == eff[e].kind = "effect" /\ eff[e].sched = "queue"
ReadsA(e) == eff[e].fn \in {"readA", "readAsetR1"}

SameValue(a, b) ==
    \/ a = NaN /\ b = NaN
    \/ a # NaN /\ b # NaN /\ a = b

\* C2: writing an existing key, or a ref, with a value that is the same as the
\* current one triggers nothing: no user function runs, no scheduler is called
\* and nothing is enqueued.
C2_SameValueNoTrigger ==
    [][ ( \/ /\ act'.name = "WriteKey"
             /\ act'.x \in DOMAIN raw
             /\ SameValue(act'.v, raw[act'.x])
          \/ /\ act'.name = "WriteRef"
             /\ SameValue(act'.v, refVal[act'.x]) )
        => /\ log' = <<>>
           /\ queue' = queue
           /\ pendingPostFlushCbs' = pendingPostFlushCbs
           /\ isFlushPending' = isFlushPending ]_vars

\* C2 witness: NaN was written to a ref that holds NaN and has a subscriber that
\* would have run at once, and nothing ran
C2_Witness ==
    /\ act.name = "WriteRef" /\ act.v = NaN /\ refVal[act.x] = NaN
    /\ \E e \in 1..Len(eff) : Plain(e) /\ eff[e].active /\ Has(dep[<<"ref", act.x>>], e)
    /\ log = <<>>

\* C3 as stated: no update is lost.  After a change of key a made by other code
\* than effect e, an active effect e whose function reads a executes its function
\* again: later in the same top-level call, or its run is waiting in the queue.
C3_NoLostUpdate ==
    \A e \in 1..Len(eff) : \A i \in 1..Len(log) :
        ( /\ eff[e].kind = "effect" /\ eff[e].active /\ ReadsA(e)
          /\ log[i].ev = "write" /\ log[i].x = "a" /\ log[i].e # e )
        => \/ \E j \in (i + 1)..Len(log) : log[j].ev = "run" /\ log[j].e = e
           \/ Has(queue, Runner(e))

\* C10 as stated: a stopped effect is a member of no dependency set, and no later
\* write executes its function.
C10_StoppedIsGone ==
    \A e \in 1..Len(eff) :
        (eff[e].kind = "effect" /\ ~eff[e].active)
        => /\ \A d \in DepIds : ~Has(dep[d], e)
           /\ act.name \in {"WriteKey", "WriteRef"} => RunsOf(log, e) = 0

\* the effect of a computed
IsComputed(e) == eff[e].kind = "computed"

\* C4: a computed is lazy.  Its getter runs only inside a read of .value (never
\* in the write that changes what it reads), and only when something it reads
\* has changed since it last ran: reads with no change in between run it at most
\* once.
C4_ComputedLazy ==
    \A i \in 1..Len(log) :
        (log[i].ev = "run" /\ IsComputed(log[i].e))
        => /\ i > 1 /\ log[i - 1].ev = "get" /\ log[i - 1].e = log[i].e
           /\ log[i].x = "changed"

\* C4 witness: the ref the getter reads has just been written, the cached value is
\* the one of before the write, and the getter has not run
C4_Witness ==
    /\ act.name = "WriteRef"
    /\ \E e \in 1..Len(eff) :
          /\ IsComputed(e) /\ eff[e].dirty
          /\ eff[e].value = Num(0) /\ Fresh(S, eff[e].name) = Num(2)
          /\ RunsOf(log, e) = 0

\* C5: whenever the dirty flag of a computed is clear, the cached value is the
\* getter's result for the current values of the refs it reads (the effect of the
\* computed being active, as it is unless it is stopped).
C5_CachedIsCurrent ==
    \A e \in 1..Len(eff) :
        (IsComputed(e) /\ eff[e].active /\ ~eff[e].dirty)
        => eff[e].value = Fresh(S, eff[e].name)

\* C5 witness: count = 1 gives doubled = 2, read at top level
C5_Witness ==
    /\ act.name = "ReadComputed"
    /\ refVal["r1"] = Num(1)
    /\ \E e \in 1..Len(eff) : IsComputed(e) /\ ~eff[e].dirty /\ eff[e].value = Num(2)

HasCb(e) == eff[e].kind = "watch" /\ eff[e].cb # ""
\* the callback calls of watcher e in a log
CbsOf(lg, e) == SelectSeq(lg, LAMBDA x : x.ev = "cb" /\ x.e = e)
\* the keys and refs watcher e watches
Sources(e) ==
    CASE eff[e].src = "ref" -> {"r1"}
      [] eff[e].src = "computed" -> Reads(eff[comp["c1"]].fn)
      [] eff[e].src = "array" -> {"r1", "r2"}
      [] eff[e].src = "none" -> {}
      [] eff[e].src = "reactive" -> Keys
      [] OTHER -> Reads(eff[e].fn)
\* the value of the source of watcher w in state s
SourceValue(s, w) ==
    CASE w.src = "ref" -> Scalar(s.refVal["r1"])
      [] w.src = "computed" -> Scalar(Fresh(s, "c1"))
      [] w.src = "array" -> List(<<s.refVal["r1"], s.refVal["r2"]>>)
      [] w.src = "none" -> List(<<>>)
      [] w.src = "reactive" -> Scalar(ObjProxy)
      [] OTHER -> Scalar(PureExec(s, Body(w.fn), 1, Undefined))

Invokes(lg, i, e) == lg[i].e = e /\ lg[i].ev \in {"cb", "run"}
\* the log has a stop of effect e, at entry i
StopAt(lg, i, e) == lg[i].e = e /\ lg[i].ev = "stop"

\* C8 as stated: once the stop function of a watcher has been called, neither
\* its callback nor its effect function is invoked: not later in the same
\* top-level call, and in no later call.
C8_NoCallAfterStop ==
    \A e \in 1..Len(eff) :
        (eff[e].kind = "watch" /\ ~eff[e].active) =>
            \A i \in 1..Len(log) :
                Invokes(log, i, e) => \E j \in (i + 1)..Len(log) : StopAt(log, j, e)

\* C9 as stated: a run of a stopped effect that is still pending when the
\* scheduler reaches it is a no-op: a flush does not execute the user function
\* of an effect that was stopped before the flush.
C9_PendingRunIsNoOp ==
    act.name = "Flush" =>
        \A e \in 1..Len(eff) :
            (~eff[e].active /\ \A i \in 1..Len(log) : ~StopAt(log, i, e))
            => RunsOf(log, e) = 0

\* a watcher of the array [r1, r2] with flush sync that is active
SyncArray(e) == HasCb(e) /\ eff[e].src = "array" /\ eff[e].sched = "sync" /\ eff[e].active

\* C11: with watch([r1, r2], cb, {flush: 'sync'}), every changing write of r1
\* or r2 calls cb exactly once before the write returns (so two writes call it
\* twice, in write order), with the current values of both refs as the new
\* value and the values just before that write as the old value.
C11_SyncPairs ==
    [][ \A e \in 1..Len(eff) :
            (SyncArray(e) /\ act'.name = "WriteRef" /\ act'.v # refVal[act'.x]) =>
                CbsOf(log', e) =
                    << Ev("cb", e, "", List(<<refVal'["r1"], refVal'["r2"]>>),
                                       List(<<refVal["r1"], refVal["r2"]>>)) >> ]_vars

\* C11 witness: r2 was written after r1 had been, and the callback of a sync
\* watcher of [r1, r2] got [1, 1] as new and [1, 0] as old value
C11_Witness ==
    /\ act.name = "WriteRef" /\ act.x = "r2"
    /\ \E e \in 1..Len(eff) :
          /\ SyncArray(e)
          /\ CbsOf(log, e) = << Ev("cb", e, "", List(<<Num(1), Num(1)>>),
                                               List(<<Num(1), Num(0)>>)) >>

\* the scopes nested in scope sc without being detached
Children(sc) == { c \in 1..Len(scope) : scope[c].parent = sc /\ ~scope[c].detached }

\* C12 as stated: a stop() of a scope leaves the scope stopped; a stopped
\* scope has all its effects stopped, all its non-detached child scopes
\* stopped and each of its cleanups run; and no cleanup of any scope is ever
\* run more than once.
C12_StopOnce ==
    /\ act.name = "ScopeStop" => ~scope[act.e].active
    /\ \A sc \in 1..Len(scope) :
          /\ \A i \in 1..Len(scope[sc].ran) : scope[sc].ran[i] <= 1
          /\ ~scope[sc].active =>
                /\ \A i \in 1..Len(scope[sc].effects) : ~eff[scope[sc].effects[i]].active
                /\ \A i \in 1..Len(scope[sc].ran) : scope[sc].ran[i] = 1
                /\ \A c \in Children(sc) : ~scope[c].active

\* the effects recorded in scope sc, in a sequence of scopes
EffectsOf(scopes, sc) == IF sc \in 1..Len(scopes) THEN scopes[sc].effects ELSE <<>>

\* C13: scope.run(fn) on an active scope returns or throws with the ambient
\* scope it was called with; an effect made in fn is recorded in the scope
\* whose run is then the innermost, an effect made in fn after a nested run
\* has returned is recorded in the outer scope, one made after a nested run
\* has thrown is not made at all, and an effect made outside any run is
\* recorded in no scope.
C13_AmbientRestored ==
    [][ LET sc == act'.e
            c1 == Len(scope) + 1
            c2 == Len(scope) + 2
            e1 == Len(eff) + 1
            e2 == Len(eff) + 2
            Others(S1) == \A o \in 1..Len(scope') : o \notin S1 =>
                              EffectsOf(scope', o) = EffectsOf(scope, o)
        IN /\ activeEffectScope' = activeEffectScope
           /\ act'.name = "CreateEffect" => Others({})
           /\ (act'.name = "ScopeRun" /\ scope[sc].active) =>
                 CASE act'.x = "scopeEffect" ->
                        /\ scope'[sc].effects = Append(scope[sc].effects, e1)
                        /\ Others({sc})
                   [] act'.x \in {"scopeChild", "scopeDetached"} ->
                        /\ scope'[c1].effects = <<e1>>
                        /\ scope'[sc].effects = Append(scope[sc].effects, e2)
                        /\ Others({sc, c1})
                   [] act'.x = "scopeNest" ->
                        /\ scope'[c2].effects = <<>>
                        /\ scope'[c1].effects = <<e1>>
                        /\ scope'[sc].effects = Append(scope[sc].effects, e2)
                        /\ Others({sc, c1, c2})
                   [] act'.x = "scopeChildThrow" ->
                        /\ Len(eff') = Len(eff)
                        /\ Others({})
                        /\ log'[Len(log')].ev = "uncaught"
                   [] OTHER -> TRUE ]_vars

\* C13 witness: a run with a run nested in a nested run has returned, and
\* the effect made after the inner runs is recorded in the outer scope
C13_Witness ==
    /\ act.name = "ScopeRun" /\ act.x = "scopeNest"
    /\ activeEffectScope = 0
    /\ Len(scope[act.e].effects) > 0
    /\ \E c \in 1..Len(scope) : scope[c].parent = act.e /\ Len(scope[c].effects) = 1

\* C13 witness of the throw: the function of a nested run has thrown, the
\* error reached the caller of the outer run, and no scope is ambient
C13_WitnessThrow ==
    /\ act.name = "ScopeRun" /\ act.x = "scopeChildThrow"
    /\ Len(log) > 0 /\ log[Len(log)].ev = "uncaught"
    /\ activeEffectScope = 0

\* watchers that share a source, with jobs handed to the scheduler
NextOrder ==
    \/ \E flush \in {"pre", "post"} : WatchMany("ref", "noop", flush)
    \/ \E r \in {"r1", "r2"}, v \in Bit : WriteRef(r, v)
    \/ Flush

SpecOrder == Init /\ [][NextOrder]_vars

\* jobs with ids, queued before and during a flush, and a watcher's job without id
NextIds ==
    \/ \E n \in 1..MaxId : QueueJob(n)
    \/ Watch("ref", "noop", FALSE, "pre")
    \/ \E v \in Bit : WriteRef("r1", v)
    \/ Flush

SpecIds == Init /\ [][NextIds]_vars

\* a scheduled effect and a watcher whose callback writes what the effect reads
NextPost ==
    \/ CreateEffect("readA", "queue")
    \/ \E cb \in {"noop", "setA"}, flush \in {"pre", "post"} :
          Watch("ref", cb, FALSE, flush)
    \/ \E v \in Bit : WriteKey("a", v)
    \/ \E v \in Bit : WriteRef("r1", v)
    \/ Flush

SpecPost == Init /\ [][NextPost]_vars

\* nextTick around the flushes of watchers, one of a computed whose getter throws
NextTickSpec ==
    \/ CreateComputed("c1", "throwIfR1")
    \/ \E flush \in {"pre", "post"} : Watch("computed", "noop", FALSE, flush)
    \/ \E flush \in {"pre", "post"} : Watch("ref", "noop", FALSE, flush)
    \/ \E v \in Bit : WriteRef("r1", v)
    \/ NextTick
    \/ Flush
    \/ Tick

SpecTick == Init /\ [][NextTickSpec]_vars

\* effects that write what they or other effects read, one of which stops itself
NextReenter ==
    \/ \E body \in {"stopReadAsetA", "readAsetR1", "readR1setA"} : CreateEffect(body, "none")
    \/ \E v \in Bit : WriteKey("a", v)
    \/ \E v \in Bit : WriteRef("r1", v)

SpecReenter == Init /\ [][NextReenter]_vars

\* effects whose reads depend on what they read
NextDeps ==
    \/ \E body \in {"readAthenR1", "readA", "readR1"} : CreateEffect(body, "none")
    \/ \E e \in 1..MaxEffects : Stop(e)
    \/ \E v \in Bit : WriteKey("a", v)
    \/ \E v \in Bit : WriteRef("r1", v)

SpecDeps == Init /\ [][NextDeps]_vars

\* effects that read, test and enumerate the keys of the reactive object, whose
\* keys are written, added and deleted; one key is the empty string
NextKeys ==
    \/ \E body \in {"keys", "hasB", "readB", "readA"} : CreateEffect(body, "none")
    \/ \E k \in {"a", "b", ""}, v \in Bit : WriteKey(k, v)
    \/ \E k \in {"b", ""} : DeleteKey(k)

SpecKeys == Init /\ [][NextKeys]_vars

\* effects that read an index or the length of the reactive array, which is
\* written at indices below and not below its length and resized
NextArray ==
    \/ \E body \in {"readI0", "readI1", "readI2", "readLen"} : CreateEffect(body, "none")
    \/ \E i \in 0..MaxIndex, v \in Bit : WriteIndex(i, v)
    \/ \E n \in 0..(MaxIndex + 1) : WriteLength(n)

SpecArray == Init /\ [][NextArray]_vars

\* effects that read a key, a ref or the length of the array or push to the
\* array, a computed value read from outside any effect, and effects stopped
NextTrack ==
    \/ \E body \in {"readA", "readR1", "readLen", "push"} : CreateEffect(body, "none")
    \/ CreateComputed("c1", "doubleR1")
    \/ ReadComputed("c1")
    \/ \E e \in 1..MaxEffects : Stop(e)
    \/ \E v \in Bit : WriteKey("a", v)
    \/ \E v \in Bit : WriteRef("r1", v)

SpecTrack == Init /\ [][NextTrack]_vars

\* two watchers with callbacks, of r1 or of [r1, r2], one of which may write
\* r2 in its callback
NextDup ==
    \/ \E src \in {"ref", "array"}, cb \in {"noop", "setR2"}, flush \in {"pre", "post"} :
          WatchMany(src, cb, flush)
    \/ \E v \in Bit : WriteRef("r1", v)
    \/ Flush

SpecDup == Init /\ [][NextDup]_vars

\* effects that read or enumerate the keys of the object, whose keys are
\* written and deleted through the mutable and through the read-only wrapper
NextReadonly ==
    \/ \E body \in {"readA", "readB", "keys"}, sched \in {"none", "queue"} :
          CreateEffect(body, sched)
    \/ \E k \in Keys, v \in Bit : WriteKey(k, v)
    \/ \E k \in Keys : DeleteKey(k)
    \/ \E k \in Keys, v \in Bit : WriteReadonly(k, v)
    \/ \E k \in Keys : DeleteReadonly(k)
    \/ Flush

SpecReadonly == Init /\ [][NextReadonly]_vars

\* every wrapping function and toRaw, called with the objects and with the
\* proxies made so far
NextWrap ==
    \/ \E f \in Wrappers, v \in Known : Wrap(f, v)
    \/ \E v \in Known : ToRaw(v)

SpecWrap == Init /\ [][NextWrap]_vars

\* effects that call the mutating methods of the array, alone, next to an
\* effect that reads the length and pops, and next to one that throws when it
\* is run again
NextPause ==
    \/ \E body \in {"push", "pop", "readLenPop", "readLen", "pushReadA", "tryPushReadA",
                     "throwIfLen"} : CreateEffect(body, "none")
    \/ \E e \in 1..MaxEffects : Stop(e)
    \/ WriteLength(0)

SpecPause == Init /\ [][NextPause]_vars

\* scopes with effects, cleanups, child scopes and detached scopes, stopped
\* from outside
NextScopeStop ==
    \/ CreateScope
    \/ \E sc \in 1..MaxScopes,
          prog \in {"scopeEffect", "scopeChild", "scopeChildDispose", "scopeDetached",
                    "scopeNest"} : ScopeRun(sc, prog)
    \/ \E sc \in 1..MaxScopes : ScopeStop(sc)

SpecScopeStop == Init /\ [][NextScopeStop]_vars

\* a watcher whose callback or body registers a cleanup, written to, flushed
\* and stopped
NextCleanup ==
    \/ \E cb \in {"noop", "register", "registerOnce"}, flush \in {"sync", "pre", "post"} :
          Watch("ref", cb, FALSE, flush)
    \/ \E body \in {"readR1register", "readR1registerOnce"}, flush \in {"sync", "pre"} :
          WatchEffect(body, flush)
    \/ \E e \in 1..MaxEffects : Stop(e)
    \/ \E v \in Bit : WriteRef("r1", v)
    \/ Flush

SpecCleanup == Init /\ [][NextCleanup]_vars

\* one watcher with a callback, of a ref, a reactive object, a getter, two
\* refs or no source at all, written to, flushed and stopped
NextJob ==
    \/ \E src \in {"ref", "reactive", "getter", "array", "none"},
          immediate \in BOOLEAN, flush \in {"sync", "pre", "post"} :
              Watch(src, "noop", immediate, flush)
    \/ \E e \in 1..MaxEffects : Stop(e)
    \/ \E v \in Bit : WriteKey("a", v)
    \/ \E r \in {"r1", "r2"}, v \in Bit : WriteRef(r, v)
    \/ Flush

SpecJob == Init /\ [][NextJob]_vars

\* one watcher with a callback and the default flush; count.value =
\* (count.value + 1) % 3 and writes of the other sources, then a flush
NextCoalesce ==
    \/ \E src \in {"ref", "getter", "array"} : Watch(src, "noop", FALSE, "pre")
    \/ WriteRef("r1", Num((refVal["r1"].n + 1) % 3))
    \/ \E v \in Bit : WriteRef("r2", v)
    \/ \E v \in Bit : WriteKey("a", v)
    \/ \E e \in 1..MaxEffects : Stop(e)
    \/ Flush

SpecCoalesce == Init /\ [][NextCoalesce]_vars

\* jobs with ids that queue jobs, and a watcher of a computed value whose
\* getter throws; the microtask that flushes is run whenever one is scheduled
NextLive ==
    \/ CreateComputed("c1", "throwIfR1")
    \/ \E src \in {"ref", "computed"}, flush \in {"pre", "post"} :
          Watch(src, "noop", FALSE, flush)
    \/ \E n \in 1..MaxId : QueueJob(n)
    \/ \E v \in Bit : WriteRef("r1", v)
    \/ Flush

\* a step of Flush, told by its guard and by what it leaves in act: the
\* microtask resolvedPromise.then(flushJobs) that queueFlush has scheduled
\* is run by the host
FlushRuns ==
    /\ Len(microtasks) > 0
    /\ Head(microtasks).k = "flushJobs"
    /\ act' = Act("Flush", 0, "", Undefined)

SpecLive == Init /\ [][NextLive]_vars /\ WF_act(FlushRuns)

\* the values of every kind that are wrapped: the objects, the proxies made
\* so far, an array and a primitive
AnyValue == Known \cup {[t |-> "array", n |-> 0], Num(1)}

\* reactive, readonly and ref called with values of every kind
NextWrapAny ==
    \E f \in {"reactive", "readonly", "ref"}, v \in AnyValue : Wrap(f, v)

SpecWrapAny == Init /\ [][NextWrapAny]_vars

\* the values written to a key: numbers and the ref r1
Written == Bit \cup {RefValue(1)}

\* effects that read a key, enumerate the keys, read an index or the length,
\* and writes of numbers and of a ref to the object and of numbers to the array
NextWrite ==
    \/ \E body \in {"readA", "keys", "readLen"} : CreateEffect(body, "none")
    \/ \E k \in Keys, v \in Written : WriteKey(k, v)
    \/ \E r \in {"r1"}, v \in Bit : WriteRef(r, v)
    \/ \E i \in 0..1, v \in Bit : WriteIndex(i, v)

SpecWrite == Init /\ [][NextWrite]_vars

\* the last top-level call ended with an error thrown to its caller
Uncaught == Len(log) > 0 /\ log[Len(log)].ev = "uncaught"

\* C14 as stated: an error thrown by a user function does not reach the code
\* that performed the write, and every active effect without scheduler that
\* was in the dependency set of the written key when a changing write was
\* made runs in that write, whatever another dependent's function throws.
C14_ErrorsContained ==
    [][ act'.name \in {"WriteKey", "WriteRef"} =>
          /\ ~Uncaught'
          /\ act'.name = "WriteKey" /\ act'.v # raw[act'.x] =>
                \A e \in 1..Len(eff) :
                    (Plain(e) /\ eff[e].active /\ Has(dep[<<"key", act'.x>>], e))
                        => RunsOf(log', e) >= 1 ]_vars

\* C15 as stated: between top-level calls the scheduler is never left
\* flushing, a flush pass leaves no job and no post-flush callback of the
\* pass behind, and whenever a job or a post-flush callback is queued a
\* flush is scheduled.
C15_SchedulerSurvives ==
    /\ ~isFlushing
    /\ act.name = "Flush" => Len(queue) = 0 /\ Len(pendingPostFlushCbs) = 0
    /\ (Len(queue) > 0 \/ Len(pendingPostFlushCbs) > 0) => isFlushPending

\* the flushes scheduled and not yet run
Scheduled(tasks) == Count(tasks, LAMBDA t : t.k = "flushJobs")
\* the scheduler is idle: no flush is running and none is scheduled
Idle == ~isFlushing /\ ~isFlushPending

\* C16: at most one flush is scheduled at any time, and it is scheduled exactly
\* while isFlushPending; a call that puts a job or a post-flush callback in an
\* empty queue of the idle scheduler schedules one flush for a later microtask
\* (the entry is still queued when the call returns); a call made while the
\* scheduler is not idle schedules none, whatever it enqueues; the enqueues
\* made by the jobs of a flush schedule none; and at no point of any call are
\* isFlushing and isFlushPending both true.
C16_OneFlush ==
    [][ /\ ~bothFlags'
        /\ Scheduled(microtasks') = IF isFlushPending' THEN 1 ELSE 0
        /\ act'.name = "Flush" => Scheduled(microtasks') = 0
        /\ act'.name # "Flush" =>
              /\ (Idle /\ Len(queue') + Len(pendingPostFlushCbs') >
                            Len(queue) + Len(pendingPostFlushCbs))
                     => Scheduled(microtasks') = 1
              /\ ~Idle => Scheduled(microtasks') = Scheduled(microtasks) ]_vars

\* C16 witness: a flush has run in which an effect was handed to the
\* scheduler by a job of the flush and ran later in the same flush, and no
\* flush is scheduled after it
C16_Witness ==
    /\ act.name = "Flush"
    /\ \E i, j \in 1..Len(log) :
          i < j /\ log[i].ev = "scheduler" /\ log[j].ev = "run" /\ log[j].e = log[i].e
    /\ microtasks = <<>>
    /\ ~isFlushPending

\* the calls the scheduler made in a log from its queue (the pre pass and the
\* loop over the queue), in order
QueueCalls(lg) == SelectSeq(lg, LAMBDA x : x.ev \in {"pre", "job"})
\* the queue entry a call event is about
Entry(x) == [k |-> x.x, e |-> x.e]
\* the position of the first call of entry j among calls, 0 if there is none
FirstCall(calls, j) ==
    IF \E p \in 1..Len(calls) : Entry(calls[p]) = j
    THEN CHOOSE p \in 1..Len(calls) :
             Entry(calls[p]) = j /\ \A q \in 1..(p - 1) : Entry(calls[q]) # j
    ELSE 0

\* C17 as stated: the jobs without id that are in the queue when a flush starts
\* (the queue holds them in the order they were first enqueued) are all called
\* by the flush, first calls in the order of the queue.
C17_FifoOrder ==
    [][ act'.name = "Flush" =>
          \A i, j \in 1..Len(queue) :
              (i < j /\ queue[i].k # "id" /\ queue[j].k # "id") =>
                  /\ FirstCall(QueueCalls(log'), queue[i]) > 0
                  /\ FirstCall(QueueCalls(log'), queue[i])
                        < FirstCall(QueueCalls(log'), queue[j]) ]_vars

\* at position p of a log the scheduler calls a queue entry of the flush pass
\* that position q also belongs to: no flushJobs starts in between
SamePass(lg, p, q) ==
    /\ p < q
    /\ lg[p].ev \in {"pre", "job"} /\ lg[q].ev \in {"pre", "job"}
    /\ \A m \in p..q : lg[m].ev # "flushJobs"

\* C18 as stated: in one flush pass no job is called after a job with a
\* greater id, a job without id counting as greater than every id.
C18_AscendingIds ==
    [][ act'.name = "Flush" =>
          \A p, q \in 1..Len(log') :
              SamePass(log', p, q) => getId(Entry(log'[p])) <= getId(Entry(log'[q])) ]_vars

\* the scheduler of effect e puts a job in the main queue
QueuesJob(e) == Queued(e) \/ (eff[e].kind = "watch" /\ eff[e].sched = "pre")

\* C19: in the log of a flush, within one pass (one execution of flushJobs) no
\* entry of the main queue is called after a post-flush callback of that pass;
\* and when, after a post-flush callback was called, the scheduler of an effect
\* that enqueues in the main queue is invoked, a new pass starts later in the
\* same flush and calls that effect's job in it.
C19_PostAfterJobs ==
    [][ act'.name = "Flush" =>
          \A p, q \in 1..Len(log') :
             /\ (p < q /\ log'[p].ev = "post" /\ log'[q].ev \in {"pre", "job"}) =>
                    \E m \in p..q : log'[m].ev = "flushJobs"
             /\ (p < q /\ log'[p].ev = "post" /\ log'[q].ev = "scheduler"
                       /\ QueuesJob(log'[q].e)
                       /\ \A m \in p..q : log'[m].ev # "flushJobs") =>
                    \E m, n \in q..Len(log') :
                        /\ m < n
                        /\ log'[m].ev = "flushJobs"
                        /\ log'[n].ev \in {"pre", "job"} /\ log'[n].e = log'[q].e ]_vars

\* C19 witness: a flush called a job of the main queue, then a post-flush
\* callback whose write handed the effect to the scheduler again, then
\* started a second pass and called the job in it
C19_Witness ==
    /\ act.name = "Flush"
    /\ \E p, q, r, m, n \in 1..Len(log) :
          /\ p < q /\ q < r /\ r < m /\ m < n
          /\ log[p].ev = "job"
          /\ log[q].ev = "post"
          /\ log[r].ev = "scheduler" /\ log[r].e = log[p].e
          /\ log[m].ev = "flushJobs"
          /\ log[n].ev = "job" /\ log[n].e = log[p].e

\* C20 as stated: when a callback given to nextTick is called, every job and
\* post-flush callback that was enqueued when nextTick was called has been
\* called by a flush and both queues are empty; and a nextTick called while
\* the queues are empty takes resolvedPromise (currentFlushPromise is null).
C20_NextTick ==
    [][ /\ act'.name = "Tick" =>
              /\ Head(microtasks).want = {}
              /\ Len(queue) = 0 /\ Len(pendingPostFlushCbs) = 0
        /\ (act'.name = "NextTick" /\ Len(queue) = 0 /\ Len(pendingPostFlushCbs) = 0)
              => act'.x = "null" ]_vars

\* C21 as stated: in no top-level call is the function of an effect entered
\* while an execution of the same function is on the call stack (no effect in
\* the program allows recursion).
C21_NoReentry == \A i \in 1..Len(log) : log[i].ev # "reenter"

\* the dependency sets effect e is a member of
MemberOf(e) == { d \in DepIds : Has(dep[d], e) }

\* C24 as stated: between top-level calls, the dependency sets that contain an
\* active effect are exactly those of the keys and refs it read during its
\* last run; and a write to a ref the last run did not read does not run it.
C24_LastRunDeps ==
    [][ \A e \in 1..Len(eff') :
          eff'[e].active =>
             /\ MemberOf(e)' = eff'[e].read
             /\ (e <= Len(eff) /\ act'.name = "WriteRef" /\ <<"ref", act'.x>> \notin eff[e].read)
                    => RunsOf(log', e) = 0 ]_vars

\* the function of effect e reads key k, by a get or by 'in'
ReadsKey(e, k) ==
    \E i \in 1..Len(Body(eff[e].fn)) :
        Body(eff[e].fn)[i].op \in {"RK", "IN"} /\ Body(eff[e].fn)[i].x = k
\* the function of effect e enumerates the keys
Enumerates(e) ==
    \E i \in 1..Len(Body(eff[e].fn)) : Body(eff[e].fn)[i].op = "KEYS"

\* C26 as stated: a write that changes the value of an existing key runs only
\* effects whose function reads that key; an effect that reads other keys or
\* enumerates the keys does not run, whatever the name of the key.
C26_SetExactKey ==
    [][ (act'.name = "WriteKey" /\ act'.x \in DOMAIN raw /\ hasChanged(act'.v, raw[act'.x])) =>
          \A e \in 1..Len(eff) : RunsOf(log', e) >= 1 => ReadsKey(e, act'.x) ]_vars

\* C27: a write to a key the object does not have and the deletion of a key
\* it has run once every effect whose function reads that key (by get or by
\* 'in') or enumerates the keys, and no other effect; the deletion of a key
\* the object does not have runs nothing and changes nothing.
C27_AddDelete ==
    [][ /\ ((act'.name = "WriteKey" /\ act'.x \notin DOMAIN raw)
              \/ (act'.name = "DeleteKey" /\ act'.x \in DOMAIN raw)) =>
               \A e \in 1..Len(eff) :
                   RunsOf(log', e) = IF ReadsKey(e, act'.x) \/ Enumerates(e) THEN 1 ELSE 0
        /\ (act'.name = "DeleteKey" /\ act'.x \notin DOMAIN raw) =>
               /\ raw' = raw
               /\ log' = <<>> ]_vars

\* C27 witness: the deletion of key b has run an effect that tests 'b' in
\* state and an effect that enumerates the keys
C27_Witness ==
    /\ act.name = "DeleteKey" /\ act.x = "b"
    /\ \E e, f \in 1..Len(eff) :
          /\ eff[e].fn = "hasB" /\ RunsOf(log, e) = 1
          /\ eff[f].fn = "keys" /\ RunsOf(log, f) = 1

\* C27 witness of the addition: key b was added and an effect that
\* enumerates the keys has run
C27_WitnessAdd ==
    /\ act.name = "WriteKey" /\ act.x = "b"
    /\ Len(log) > 0 /\ log[1].ev = "write" /\ log[1].b = Scalar(Undefined)
    /\ \E f \in 1..Len(eff) : eff[f].fn = "keys" /\ RunsOf(log, f) = 1

\* the function of effect e reads index i of the array / its length
ReadsIndex(e, i) ==
    \E p \in 1..Len(Body(eff[e].fn)) :
        Body(eff[e].fn)[p].op = "RI" /\ Body(eff[e].fn)[p].v = Num(i)
ReadsLength(e) ==
    \E p \in 1..Len(Body(eff[e].fn)) : Body(eff[e].fn)[p].op = "RLEN"

\* C28: a write at an index not below the length of the array runs once every
\* effect that reads that index or the length; setting the length to a
\* smaller value n runs once every effect that reads the length or an index
\* not below n, and runs no effect that reads only indices below n.
C28_ArrayLength ==
    [][ /\ (act'.name = "WriteIndex" /\ act'.e >= Len(items)) =>
               \A e \in 1..Len(eff) :
                   (ReadsIndex(e, act'.e) \/ ReadsLength(e)) => RunsOf(log', e) = 1
        /\ (act'.name = "WriteLength" /\ act'.e < Len(items)) =>
               \A e \in 1..Len(eff) :
                   RunsOf(log', e) =
                       IF ReadsLength(e) \/ \E i \in act'.e..MaxIndex : ReadsIndex(e, i)
                       THEN 1 ELSE 0 ]_vars

\* C28 witness: the length was set from 3 to 1 while an effect that reads
\* index 1 and an effect that reads index 0 existed: only the first has run
C28_Witness ==
    /\ act.name = "WriteLength" /\ act.e = 1 /\ Len(items) = 1
    /\ \E e, f \in 1..Len(eff) :
          /\ eff[e].fn = "readI1" /\ RunsOf(log, e) = 1
          /\ eff[f].fn = "readI0" /\ RunsOf(log, f) = 0

\* C28 witness of the write: index 2 was written while the length was below
\* 2, and an effect that reads the length has run
C28_WitnessAdd ==
    /\ act.name = "WriteIndex" /\ act.e = 2
    /\ Len(log) > 0 /\ log[1].ev = "add"
    /\ \E e \in 1..Len(eff) : eff[e].fn = "readLen" /\ RunsOf(log, e) = 1

\* the notification of a write of value to a key whose state before the write
\* is (hadKey, oldValue)
Notification(hadKey, oldValue, value) ==
    IF ~hadKey THEN "add" ELSE IF hasChanged(value, oldValue) THEN "set" ELSE "none"

\* the runs of effect e that a notification of that type for key k of the
\* object causes: add reaches the readers of k and of the keys, set those of k
NotifiedKey(e, type, k) ==
    IF \/ type = "add" /\ (ReadsKey(e, k) \/ Enumerates(e))
       \/ type = "set" /\ ReadsKey(e, k)
    THEN 1 ELSE 0

\* the same for index i of the array: add reaches the readers of i and of length
NotifiedIndex(e, type, i) ==
    IF \/ type = "add" /\ (ReadsIndex(e, i) \/ ReadsLength(e))
       \/ type = "set" /\ ReadsIndex(e, i)
    THEN 1 ELSE 0

\* a write of the last step that assigns through the ref the key holds
ThroughRef(k, value) == k \in DOMAIN raw /\ isRef(raw[k]) /\ ~isRef(value)

\* a write to a key of the object is classified from the state before it,
\* notifies once, and leaves the written value in the raw object
KeyWriteClassified ==
    /\ raw'[act'.x] = act'.v
    /\ \A e \in 1..Len(eff) :
          RunsOf(log', e) =
              NotifiedKey(e, Notification(act'.x \in DOMAIN raw,
                                          IF act'.x \in DOMAIN raw THEN raw[act'.x]
                                          ELSE Undefined, act'.v), act'.x)

\* the same for a write to an index of the array
IndexWriteClassified ==
    /\ items'[act'.e + 1] = act'.v
    /\ \A e \in 1..Len(eff) :
          RunsOf(log', e) =
              NotifiedIndex(e, Notification(act'.e < Len(items),
                                            IF act'.e < Len(items) THEN items[act'.e + 1]
                                            ELSE Undefined, act'.v), act'.e)

C29_WitnessAdd ==
    /\ act.name = "WriteKey" /\ act.x = "b"
    /\ \E e \in 1..Len(eff) : Enumerates(e) /\ RunsOf(log, e) = 1

\* a sequence without repetition
NoRepeat(seq) == \A i, j \in 1..Len(seq) : seq[i] = seq[j] => i = j

\* C25: in every state an effect is a member of a dependency set if and only
\* if the set is in the effect's list of dependencies, where it occurs once at
\* most; the members of a set are effects, so that a read outside any effect
\* is not recorded; and an effect whose only reads are those of push, made
\* with tracking paused, has no dependencies.
C25_Bookkeeping ==
    /\ \A d \in DepIds : \A e \in 1..Len(eff) : Has(dep[d], e) <=> Has(eff[e].deps, d)
    /\ \A d \in DepIds : NoRepeat(dep[d]) /\ \A i \in 1..Len(dep[d]) : dep[d][i] \in 1..Len(eff)
    /\ \A e \in 1..Len(eff) :
          /\ NoRepeat(eff[e].deps)
          /\ \A i \in 1..Len(eff[e].deps) : eff[e].deps[i] \in DepIds
          /\ eff[e].fn = "push" => eff[e].deps = <<>>

\* C25 witness: an effect has pushed to the array, which ran an effect that
\* depends on the length, and the computed value was read from outside
C25_Witness ==
    /\ \E e, f \in 1..Len(eff) :
          /\ eff[e].fn = "push" /\ eff[f].fn = "readLen" /\ f < e
          /\ Has(dep[LENGTH], f) /\ Has(eff[f].deps, LENGTH)
          /\ act.name = "CreateEffect" /\ RunsOf(log, f) = 1
    /\ Len(items) = 1 /\ shouldTrack /\ trackStack = <<>>

\* C25 witness of the read outside any effect: the computed value was read
\* by no effect, and its dependency set is empty
C25_WitnessOutside ==
    /\ act.name = "ReadComputed" /\ dep[<<"computed", "c1">>] = <<>>
    /\ \E e \in 1..Len(eff) : eff[e].kind = "computed" /\ Len(eff[e].deps) = 1

\* C30: no job enters the queue while it is among the entries of the queue
\* that have not been called yet; a job that is enqueued again while the loop
\* of flushJobs is calling it is not among them.
C30_NoDuplicate == \A i \in 1..Len(log) : log[i].ev # "duplicate"

\* C23: a write or a delete through the read-only wrapper throws nothing,
\* leaves the object as it was, runs and schedules no effect, and does nothing
\* but emit one warning.
C23_ReadonlyRejects ==
    [][ act'.name \in {"WriteReadonly", "DeleteReadonly"} =>
            /\ raw' = raw /\ refVal' = refVal /\ items' = items
            /\ eff' = eff /\ dep' = dep
            /\ queue' = queue /\ pendingPostFlushCbs' = pendingPostFlushCbs
            /\ microtasks' = microtasks
            /\ Len(log') = 1 /\ log'[1].ev = "warn" /\ log'[1].x = act'.x ]_vars

\* C23 witness: a key that an effect reads was written through the read-only
\* wrapper with a value other than the one it holds
C23_Witness ==
    /\ act.name = "WriteReadonly" /\ act.x \in DOMAIN raw /\ act.v # raw[act.x]
    /\ \E e \in 1..Len(eff) : eff[e].active /\ Has(dep[<<"key", act.x>>], e)

\* C23 witness of the delete: a key that exists and that an effect reads was
\* deleted through the read-only wrapper while an effect enumerates the keys
C23_WitnessDelete ==
    /\ act.name = "DeleteReadonly" /\ act.x \in DOMAIN raw
    /\ \E e, f \in 1..Len(eff) :
          /\ Has(dep[<<"key", act.x>>], e)
          /\ Has(dep[<<"key", ITERATE_KEY>>], f)

RECURSIVE Original(_)
\* the object a proxy was made of, through the proxies in between
Original(v) == IF isProxyValue(v) THEN Original(proxies[v.n].target) ELSE v

\* a proxy made by reactive or shallowReactive; a function that makes
\* read-only, shallow proxies
Mutable(v) == isProxyValue(v) /\ ~proxies[v.n].isReadonly
ReadOnly(f) == f \in {"readonly", "shallowReadonly"}
Shallow(f) == f \in {"shallowReactive", "shallowReadonly"}

\* the proxies among ps that function f made of v
Made(ps, v, f) ==
    { i \in 1..Len(ps) : ps[i] = [target |-> v, isReadonly |-> ReadOnly(f),
                                  shallow |-> Shallow(f)] }

\* what the last step, the call f(v), returned agrees with the statement of C22
WrapIdentity(f, v) ==
    /\ returned' # Thrown
    /\ f \in Wrappers =>
           IF ~isProxyValue(v) \/ (ReadOnly(f) /\ Mutable(v))
           THEN /\ Made(proxies, v, f) # {} =>
                      returned' \in { ProxyValue(i) : i \in Made(proxies, v, f) }
                /\ Made(proxies, v, f) = {} =>
                      \/ returned' = v /\ proxies' = proxies
                      \/ returned' \in { ProxyValue(i) : i \in Made(proxies', v, f) }
                /\ Cardinality(Made(proxies', v, f)) <= 1
           ELSE returned' = v /\ proxies' = proxies
    /\ f = "toRaw" => returned' = Original(v)

\* C22: two calls of a wrapping function on the same object return the same
\* wrapper and none throws; a wrapping function called on a wrapper returns
\* that wrapper, except that a read-only one called on a mutable wrapper
\* returns the one read-only wrapper of that wrapper; toRaw of a wrapper
\* returns the object the wrapper was made of.
C22_WrapIdentity ==
    [][ act'.name \in {"Wrap", "ToRaw"} => WrapIdentity(act'.x, act'.v) ]_vars

\* C40: reactive, readonly and ref throw nothing, whatever value they are
\* called with: each returns a wrapper (a proxy or a ref) or the value itself.
C40_WrapNeverThrows ==
    [][ act'.name = "Wrap" =>
            /\ returned' # Thrown
            /\ returned' = act'.v \/ isProxyValue(returned') \/ isRef(returned') ]_vars


\* the function calls a mutating method of the array; it reads the length itself
CallsMutator(body) ==
    \E p \in 1..Len(Body(body)) : Body(body)[p].op \in {"PUSH", "POP"}
ReadsLengthItself(body) ==
    \E p \in 1..Len(Body(body)) : Body(body)[p].op = "RLEN"

\* C37: an effect that calls push or pop on the array depends neither on the
\* length nor on an index because of the call, and when the call has ended
\* tracking is as it was before: shouldTrack and the stack of saved values are
\* what they were, and a key the effect reads after the call is a dependency
\* of the effect.
C37_MutatorsUntracked ==
    [][ (act'.name = "CreateEffect" /\ CallsMutator(act'.x)) =>
            /\ shouldTrack' = shouldTrack /\ trackStack' = trackStack
            /\ \A d \in ArrayKeys :
                   Has(eff'[act'.e].deps, d) => d = LENGTH /\ ReadsLengthItself(act'.x)
            /\ (\/ act'.x = "tryPushReadA"
                \/ act'.x = "pushReadA" /\ log'[Len(log')].ev # "uncaught") =>
                   Has(eff'[act'.e].deps, <<"key", "a">>) ]_vars

\* the p-th event of a log is scope sc stopping one of its effects or calling
\* one of its cleanups
OwnAt(lg, sc, p) ==
    \/ lg[p].ev = "dispose" /\ lg[p].e = sc
    \/ lg[p].ev = "stop" /\ Has(scope[sc].effects, lg[p].e)

\* the child scopes of a scope
ChildOf(sc) == { c \in 1..Len(scope) : scope[c].parent = sc /\ ~scope[c].detached }

ChildList(sc, p) ==
    /\ \A c \in 1..Len(sc) :
          (sc[c].parent = p /\ ~sc[c].detached /\ sc[c].active) =>
              /\ sc[c].index < Len(sc[p].scopes)
              /\ sc[p].scopes[sc[c].index + 1] = c
    /\ \A i \in 1..Len(sc[p].scopes) :
          sc[p].scopes[i] \in 1..Len(sc) =>
              /\ sc[sc[p].scopes[i]].active
              /\ sc[sc[p].scopes[i]].parent = p

C39_WitnessDetached ==
    /\ act.name = "ScopeStop"
    /\ \E c \in 1..Len(scope) :
          /\ scope[c].detached /\ scope[c].parent = act.e /\ scope[c].active
          /\ ~scope[act.e].active

\* C32: whenever the scheduler is idle, isFlushing and isFlushPending both
\* false, the job queue and the queue of pending post-flush callbacks are
\* empty.
C32_IdleEmpty ==
    (~isFlushing /\ ~isFlushPending) =>
        Len(queue) = 0 /\ Len(pendingPostFlushCbs) = 0

\* C32 witness: a flush whose post-flush callback queued a job has flushed
\* again before it returned, and the scheduler is idle
C32_Witness ==
    /\ act.name = "Flush" /\ ~isFlushing /\ ~isFlushPending
    /\ \E p, q, r \in 1..Len(log) :
          /\ p < q /\ q < r
          /\ log[p].ev = "post" /\ log[q].ev = "flushJobs" /\ log[r].ev = "job"

\* the p-th event of a log is the callback of watcher e, or the body of a
\* watcher without callback, being invoked; ws is the effects after the call
Invoked(lg, ws, e, p) ==
    /\ lg[p].e = e
    /\ \/ lg[p].ev = "cb"
       \/ lg[p].ev = "run" /\ e \in 1..Len(ws) /\ ws[e].kind = "watch" /\ ws[e].cb = ""

\* the registrations and the cleanup calls of watcher e before the p-th event
CleanupEvents(lg, e, p) ==
    { q \in 1..(p - 1) : lg[q].e = e /\ lg[q].ev \in {"onCleanup", "cleanup"} }

\* a cleanup registered by watcher e has not been called when the p-th event
\* of the call happens
PendingAt(lg, e, p) ==
    IF CleanupEvents(lg, e, p) = {} THEN e \in 1..Len(eff) /\ eff[e].pending
    ELSE lg[CHOOSE q \in CleanupEvents(lg, e, p) :
                \A r \in CleanupEvents(lg, e, p) : r <= q].ev = "onCleanup"

\* C35: a cleanup a watcher has registered is called before the watcher's
\* callback or body is invoked next, immediately before it, and is called
\* when the watcher is stopped.
C35_CleanupRuns ==
    [][ /\ \A p \in 1..Len(log') :
               Invoked(log', eff', log'[p].e, p) => ~PendingAt(log', log'[p].e, p)
        /\ \A q \in 1..Len(log') :
               log'[q].ev = "cleanup" =>
                   \/ q < Len(log') /\ Invoked(log', eff', log'[q].e, q + 1)
                   \/ q > 1 /\ log'[q - 1].ev = "stop" /\ log'[q - 1].e = log'[q].e
        /\ (act'.name = "Stop" /\ eff[act'.e].active /\ eff[act'.e].pending) =>
               \E q \in 1..Len(log') : log'[q].ev = "cleanup" /\ log'[q].e = act'.e ]_vars

\* C35 witness: the callback was invoked a second time, and the cleanup its
\* first invocation registered was called right before
C35_Witness ==
    /\ act.name \in {"WriteRef", "Flush"}
    /\ \E p \in 2..Len(log) :
          /\ log[p].ev = "cb" /\ log[p - 1].ev = "cleanup" /\ log[p - 1].e = log[p].e
          /\ log[p - 1].x = ""

\* C35 witness of the stop: a watcher with a cleanup registered and not yet
\* called was stopped, and the cleanup was called
C35_WitnessStop ==
    /\ act.name = "Stop"
    /\ \E q \in 1..Len(log) : log[q].ev = "cleanup" /\ log[q].e = act.e /\ log[q].x = ""

\* C36: no cleanup is called a second time without having been registered
\* again, neither before an invocation nor on stop.
C36_OncePerRegistration ==
    \A q \in 1..Len(log) : ~(log[q].ev = "cleanup" /\ log[q].x = "again")

\* how often the job of watcher e was called in a log: by the scheduler of a
\* flush, or as the scheduler of a watcher with sync flush
JobCalls(lg, e) ==
    Count(lg, LAMBDA x :
        /\ x.e = e
        /\ \/ x.ev \in {"pre", "job", "post"} /\ x.x = "job"
           \/ x.ev = "scheduler" /\ eff[e].sched = "sync")

\* the new value differs from the remembered one: a single source is not
\* the same value, of several sources at least one is not
Differs(new, old) ==
    IF new.list THEN \E i \in 1..Len(new.xs) : new.xs[i] # old.xs[i]
    ELSE new.xs[1] # old.xs[1]

\* C34: when the job of a watcher runs, the callback is invoked, once and
\* with the new value, if the new value differs from the remembered one, or
\* the watcher is deep or forced, or the new value is an empty list;
\* otherwise it is not invoked and the remembered value stays.
C34_CallbackIffChanged ==
    [][ /\ \A e \in 1..Len(eff) :
               (HasCb(e) /\ eff[e].active /\ JobCalls(log', e) = 1) =>
                   IF \/ eff[e].deep \/ eff[e].force
                      \/ Differs(SourceValue(S', eff[e]), eff[e].oldValue)
                      \/ SourceValue(S', eff[e]) = List(<<>>)
                   THEN /\ Len(CbsOf(log', e)) = 1
                        /\ CbsOf(log', e)[1].a = SourceValue(S', eff[e])
                        /\ eff'[e].oldValue = SourceValue(S', eff[e])
                   ELSE /\ CbsOf(log', e) = <<>>
                        /\ eff'[e].oldValue = eff[e].oldValue
        /\ act'.name = "WatchImmediate" =>
               /\ Len(CbsOf(log', act'.e)) = 1
               /\ eff'[act'.e].oldValue = SourceValue(S', eff'[act'.e]) ]_vars

\* C34 witness: a flush has run the job of a watcher whose source was
\* written and written back: the callback was not invoked
C34_Witness ==
    /\ act.name = "Flush"
    /\ \E e \in 1..Len(eff) :
          /\ HasCb(e) /\ eff[e].active /\ ~eff[e].deep
          /\ \E p \in 1..Len(log) :
                log[p].e = e /\ log[p].ev \in {"pre", "job", "post"} /\ log[p].x = "job"
          /\ CbsOf(log, e) = <<>>

\* C34 witness of the changed element: the job of a watcher of two refs has
\* run after the second alone was written, and the callback was invoked
C34_WitnessSome ==
    /\ \E e \in 1..Len(eff) :
          /\ HasCb(e) /\ eff[e].src = "array"
          /\ Len(CbsOf(log, e)) = 1 /\ Len(CbsOf(log, e)[1].b.xs) = 2
          /\ CbsOf(log, e)[1].a.xs[1] = CbsOf(log, e)[1].b.xs[1]
          /\ CbsOf(log, e)[1].a.xs[2] # CbsOf(log, e)[1].b.xs[2]

\* C34 witness of the empty list: a watcher of no source was made with
\* immediate, and the callback was invoked with an empty list
C34_WitnessEmpty ==
    /\ act.name = "WatchImmediate"
    /\ Len(CbsOf(log, act.e)) = 1 /\ CbsOf(log, act.e)[1].a = List(<<>>)

\* an active watcher with a callback and the default flush
PreWatcher(ws, e) ==
    ws[e].kind = "watch" /\ ws[e].cb # "" /\ ws[e].sched = "pre" /\ ws[e].active

\* C33 as stated: the flush after one or more changes of the source of a
\* watcher with the default flush invokes the callback exactly once, with
\* the value after the last write and the value before the first.
C33_ExactlyOne ==
    [][ \A e \in 1..Len(eff) :
            (PreWatcher(eff, e) /\ act'.name = "Flush" /\ Has(queue, Job(e))) =>
                CbsOf(log', e) =
                    << Ev("cb", e, "", SourceValue(S', eff[e]), eff[e].oldValue) >> ]_vars

\* C33 amended: the writes invoke nothing; the flush invokes the callback
\* once, with the value after the last write and the value before the
\* first, if the two differ, and not at all if they are the same; the value
\* remembered while no job is queued is the value the source has.
C33_Coalesced ==
    [][ /\ \A e \in 1..Len(eff) : PreWatcher(eff, e) =>
               /\ act'.name # "Flush" => CbsOf(log', e) = <<>>
               /\ (act'.name = "Flush" /\ Has(queue, Job(e))) =>
                      CbsOf(log', e) =
                          IF Differs(SourceValue(S', eff[e]), eff[e].oldValue)
                          THEN << Ev("cb", e, "", SourceValue(S', eff[e]), eff[e].oldValue) >>
                          ELSE <<>>
        /\ \A e \in 1..Len(eff') :
               (PreWatcher(eff', e) /\ ~Has(queue', Job(e))) =>
                   eff'[e].oldValue = SourceValue(S', eff'[e]) ]_vars

\* C33 witness: count.value went from 0 to 1 to 2 before the flush, which
\* has invoked the callback once, with 2 and 0
C33_Witness ==
    /\ act.name = "Flush"
    /\ \E e \in 1..Len(eff) :
          /\ PreWatcher(eff, e) /\ eff[e].src = "ref"
          /\ CbsOf(log, e) = << Ev("cb", e, "", Scalar(Num(2)), Scalar(Num(0))) >>

\* the entries that are queued: the jobs with ids and the jobs of the watchers
Entries == { IdJob(n) : n \in 1..MaxId } \cup { Job(e) : e \in 1..MaxEffects }

\* C31: every job in the queue and every pending post-flush callback is
\* eventually called by a flush.
C31_EventuallyExecuted ==
    \A j \in Entries :
        (Has(queue, j) \/ Has(pendingPostFlushCbs, j))
            ~> (act.name = "Flush" /\ j \in CalledIn(log))

====
